---- MODULE Spec2Model ----
(***************************************************************************)
(* A model of sahara/plugins/cdh/deploy.py: the CDH plugin's configuration *)
(* merge (_merge_dicts, _get_configs) and its orchestrators                *)
(* (configure_cluster, start_cluster, scale_cluster, decommission_cluster) *)
(* with their fan-outs and readiness pollers.                              *)
(*                                                                         *)
(* Python dicts are functions (DOMAIN = the keys), lists are sequences,    *)
(* strings are strings.                                                    *)
(***************************************************************************)
EXTENDS Integers, Sequences, FiniteSets, TLC

VARIABLES
    \* ---- configuration merge engine (SpecMerge, SpecGetConfigs) ----
    layers,       \* the layers L1..Ln handed to the fold, in order
    acc,          \* the accumulator of the fold: _merge_dicts of layers[1..idx]
    idx,          \* how many layers have been folded in
    gc_cluster,   \* the cluster object _get_configs may be called with
    gc_node_group,\* the node group object _get_configs may be called with
    gc_call,      \* the last _get_configs call: its arguments
    gc_result,    \* the last _get_configs call: what it returned
    \* ---- port requirement query (SpecPorts) ----
    gp_node_group,\* the node group get_open_ports is called with
    gp_ports,     \* what the call returned; <<>> before the call
    \* ---- _get_configs on a heap of dict objects (SpecHeap) ----
    heap,         \* the dict objects that outlive a call, by address
    hp_roots,     \* the addresses of node_configs and of cluster_configs
    hp_calls,     \* what each call made so far returned
    \* ---- orchestrators (Spec) ----
    cluster,      \* the cluster object: node groups and their instances
    swift_enabled,\* c_helper.is_swift_enabled(cluster)
    stage,        \* the life of the cluster: new, configured, started
    calls,        \* scale_cluster / decommission_cluster calls made so far
    fn,           \* the orchestrator function called last
    pc,           \* where that call stands: a function name, idle, or error
    err,          \* the exception that ended the call, or none
    instances,    \* the call's list of instances
    pre_installed,\* what cmd.is_pre_installed_cdh answered in this call
    tg,           \* the open ThreadGroup: each unit's state; None when closed
    elapsed,      \* a poller's delta_seconds(s_time, utcnow())
    is_ok,        \* a poller's last predicate value
    hostnames_to_manager, \* _await_agents' last get_all_hosts snapshot
    loop_i,       \* scale_cluster's position in "for instance in instances"
    log,          \* the calls the current orchestrator call has made, in order
    cm,           \* the control plane: what has been created, configured, ...
    nodes         \* for each instance name, what has been done on the machine

mergeVars == <<layers, acc, idx>>
gcVars == <<gc_cluster, gc_node_group, gc_call, gc_result>>
portVars == <<gp_node_group, gp_ports>>
heapVars == <<heap, hp_roots, hp_calls>>
orchVars == <<cluster, swift_enabled, stage, calls, fn, pc, err, instances,
              pre_installed, tg, elapsed, is_ok, hostnames_to_manager, loop_i,
              log, cm, nodes>>

(***************************************************************************)
(* Python values                                                           *)
(***************************************************************************)
\* Python's None (a record, so that it compares with the objects below)
None == [isNone |-> TRUE]

\* {}
EmptyDict == <<>>

\* d.get(k): None when k is no key of d
dict_get(d, k) == IF k \in DOMAIN d THEN d[k] ELSE None

\* d.get(k, default)
dict_get_default(d, k, default) == IF k \in DOMAIN d THEN d[k] ELSE default

\* Python truthiness of a value that is None or a dict
truthy(v) == v # None /\ v # EmptyDict

\* d.update(e): e's keys are added to d, e's value wins on a collision
dict_update(d, e) ==
    [k \in DOMAIN d \cup DOMAIN e |-> IF k \in DOMAIN e THEN e[k] ELSE d[k]]

\* the closure update(cfg) of _merge_dicts with "res[service] = {}" done
\* whether or not res has the service: the service's map is reset on every
\* update
update_reset(res, cfg) ==
    [s \in DOMAIN res \cup DOMAIN cfg |->
        IF s \in DOMAIN cfg THEN dict_update(EmptyDict, cfg[s]) ELSE res[s]]

(***************************************************************************)
(* _merge_dicts                                                            *)
(***************************************************************************)
\* the closure update(cfg) of _merge_dicts, res passed explicitly: for every
\* service of cfg, res[service] is made {} when res.get(service) is falsy
\* (absent or empty), and then updated with cfg's settings of the service.
\* The services of cfg are distinct keys, so the iteration order is immaterial.
update(res, cfg) ==
    [s \in DOMAIN res \cup DOMAIN cfg |->
        IF s \in DOMAIN cfg
        THEN dict_update(IF truthy(dict_get(res, s)) THEN res[s] ELSE EmptyDict,
                         cfg[s])
        ELSE res[s]]

_merge_dicts(a, b) == update(update(EmptyDict, a), b)

(***************************************************************************)
(* The objects _get_configs reads                                          *)
(***************************************************************************)
\* cloudera_utils' service names
HDFS_SERVICE_NAME == "hdfs01"
YARN_SERVICE_NAME == "yarn01"
OOZIE_SERVICE_NAME == "oozie01"
HIVE_SERVICE_NAME == "hive01"
HUE_SERVICE_NAME == "hue01"
SPARK_SERVICE_NAME == "spark_on_yarn01"

\* the service types of deploy.py
HDFS_SERVICE_TYPE == "HDFS"
YARN_SERVICE_TYPE == "YARN"
OOZIE_SERVICE_TYPE == "OOZIE"
HIVE_SERVICE_TYPE == "HIVE"
HUE_SERVICE_TYPE == "HUE"
SPARK_SERVICE_TYPE == "SPARK_ON_YARN"

\* the elements of a sequence
Range(seq) == {seq[i] : i \in DOMAIN seq}

\* whether x is an element of the list seq (Python's "x in seq")
In(x, seq) == x \in Range(seq)

\* sep.join(strs)
RECURSIVE join(_, _)
join(sep, strs) ==
    IF strs = <<>> THEN ""
    ELSE IF Len(strs) = 1 THEN strs[1]
    ELSE strs[1] \o sep \o join(sep, Tail(strs))

\* An instance is [instance_name, node_group_name]; a node group is
\* [name, node_processes, storage_paths, node_configs, instances]; a cluster
\* is [name, cluster_configs, node_groups].

\* gu.get_instances(cluster): the instances of every node group, in node
\* group order
RECURSIVE concat_instances(_)
concat_instances(node_groups) ==
    IF node_groups = <<>> THEN <<>>
    ELSE node_groups[1].instances \o concat_instances(Tail(node_groups))

get_instances(cl) == concat_instances(cl.node_groups)

\* instance.node_group
node_group_of(cl, instance) ==
    LET i == CHOOSE j \in DOMAIN cl.node_groups :
                 cl.node_groups[j].name = instance.node_group_name
    IN cl.node_groups[i]

\* gu.get_instances(cluster, process): the instances whose node group runs
\* the process
get_instances_of(cl, process) ==
    SelectSeq(get_instances(cl),
              LAMBDA i : In(process, node_group_of(cl, i).node_processes))

\* gu.get_instance(cluster, process): the first such instance, or None
get_instance(cl, process) ==
    LET found == get_instances_of(cl, process)
    IN IF found = <<>> THEN None ELSE found[1]

\* pu.get_manager and its siblings
get_manager(cl) == get_instance(cl, "MANAGER")
get_namenode(cl) == get_instance(cl, "NAMENODE")
get_oozie(cl) == get_instance(cl, "OOZIE_SERVER")
get_hive_metastore(cl) == get_instance(cl, "HIVEMETASTORE")
get_hue(cl) == get_instance(cl, "HUE_SERVER")
get_spark_historyserver(cl) ==
    get_instance(cl, "SPARK_YARN_HISTORY_SERVER")

\* instance.internal_ip, instance.management_ip, instance.hostname(),
\* instance.fqdn()
internal_ip(instance) == "10.0.0." \o instance.instance_name
management_ip(instance) == "172.24.4." \o instance.instance_name
hostname(instance) == instance.instance_name
fqdn(instance) == instance.instance_name \o ".novalocal"

\* cu.get_role_name(instance, service)
get_role_name(instance, service) == hostname(instance) \o "_" \o service

\* db_helper.get_hive_db_password(cluster)
get_hive_db_password(cl) == "pw-" \o cl.name

(***************************************************************************)
(* _get_configs                                                            *)
(***************************************************************************)
\* get_hadoop_dirs(mount_points, suffix)
get_hadoop_dirs(mount_points, suffix) ==
    join(",", [i \in DOMAIN mount_points |-> mount_points[i] \o suffix])

\* all_confs as first assigned: the static cross-service defaults
static_confs ==
    [OOZIE |-> [mapreduce_yarn_service |-> YARN_SERVICE_NAME],
     YARN |-> [hdfs_service |-> HDFS_SERVICE_NAME],
     HUE |-> [hive_service |-> HIVE_SERVICE_NAME,
              oozie_service |-> OOZIE_SERVICE_NAME],
     SPARK_ON_YARN |-> [yarn_service |-> YARN_SERVICE_NAME]]

\* ng_default_confs: the storage-path-derived directories
ng_default_confs(paths) ==
    [NAMENODE |-> [dfs_name_dir_list |-> get_hadoop_dirs(paths, "/fs/nn")],
     SECONDARYNAMENODE |->
         [fs_checkpoint_dir_list |-> get_hadoop_dirs(paths, "/fs/snn")],
     DATANODE |-> [dfs_data_dir_list |-> get_hadoop_dirs(paths, "/fs/dn")],
     NODEMANAGER |->
         [yarn_nodemanager_local_dirs |-> get_hadoop_dirs(paths, "/yarn/local")]]

\* the "if node_group:" block: the user's node group settings are merged
\* first, the computed defaults after them
with_node_group(all_confs, node_group) ==
    LET ng_user_confs == node_group.node_configs
        merged == _merge_dicts(all_confs, ng_user_confs)
    IN _merge_dicts(merged, ng_default_confs(node_group.storage_paths))

hive_confs(cl) ==
    [HIVE |-> [hive_metastore_database_type |-> "postgresql",
               hive_metastore_database_host |->
                   internal_ip(get_manager(cl)),
               hive_metastore_database_port |-> "7432",
               hive_metastore_database_password |->
                   get_hive_db_password(cl),
               mapreduce_yarn_service |-> YARN_SERVICE_NAME]]

hue_confs(cl) ==
    [HUE |-> [hue_webhdfs |-> get_role_name(get_namenode(cl), "NAMENODE")]]

\* the "if cluster:" block with cluster.cluster_configs merged first
with_cluster_user_first(all_confs, cl) ==
    LET a1 == _merge_dicts(all_confs, cl.cluster_configs)
        a2 == _merge_dicts(a1, hue_confs(cl))
    IN _merge_dicts(a2, hive_confs(cl))

\* the "if cluster:" block: hue, hive, then the cluster-wide user settings
with_cluster(all_confs, cl) ==
    LET a1 == _merge_dicts(all_confs, hue_confs(cl))
        a2 == _merge_dicts(a1, hive_confs(cl))
    IN _merge_dicts(a2, cl.cluster_configs)

_get_configs(service, cl, node_group) ==
    LET a1 == IF node_group # None
              THEN with_node_group(static_confs, node_group)
              ELSE static_confs
        a2 == IF cl # None THEN with_cluster(a1, cl) ELSE a1
    IN dict_get_default(a2, service, EmptyDict)

(***************************************************************************)
(* Topology objects                                                        *)
(***************************************************************************)
Instance(name, ng) == [instance_name |-> name, node_group_name |-> ng]

NodeGroup(name, procs, paths, confs, insts) ==
    [name |-> name, node_processes |-> procs, storage_paths |-> paths,
     node_configs |-> confs, instances |-> insts]

Cluster(name, confs, ngs) ==
    [name |-> name, cluster_configs |-> confs, node_groups |-> ngs]

\* a dict restricted to some of its keys
Restrict(d, keys) == [k \in keys |-> d[k]]

(***************************************************************************)
(* The calls the orchestrators make                                        *)
(***************************************************************************)
CM_API_PORT == 7180
CDH_VERSION == "CDH5"

\* One call in the log: a control plane call (on service svc, for role type
\* role, with the names and the settings it is given) or a remote command
\* (names = the instance it runs on); ok is whether it returned.
Op(name, svc, role, names, conf) ==
    [op |-> name, svc |-> svc, role |-> role, names |-> names, conf |-> conf,
     ok |-> TRUE]

\* a call on the control plane client
CP(name, svc, role, names) == Op(name, svc, role, names, EmptyDict)

\* a remote command / file operation on an instance
R(name, instance) == Op(name, "", "", <<instance.instance_name>>, EmptyDict)

\* the same call, raising
Raised(o) == [o EXCEPT !.ok = FALSE]

RECURSIVE Flatten(_)
Flatten(seqs) == IF seqs = <<>> THEN <<>> ELSE seqs[1] \o Flatten(Tail(seqs))

\* cu.get_service(process, instance=instance): the service owning a process
service_of(process) ==
    CASE process \in {"NAMENODE", "DATANODE", "SECONDARYNAMENODE"} ->
             HDFS_SERVICE_NAME
      [] process \in {"RESOURCEMANAGER", "NODEMANAGER", "JOBHISTORY"} ->
             YARN_SERVICE_NAME
      [] process = "OOZIE_SERVER" -> OOZIE_SERVICE_NAME
      [] process \in {"HIVEMETASTORE", "HIVESERVER2"} -> HIVE_SERVICE_NAME
      [] process = "HUE_SERVER" -> HUE_SERVICE_NAME
      [] process = "SPARK_YARN_HISTORY_SERVER" -> SPARK_SERVICE_NAME

\* _create_services with the HUE service created whether or not an instance
\* runs a hue server
_create_services_hue_always(cl) ==
    <<CP("create_cluster", "", "", <<cl.name, CDH_VERSION>>),
      CP("create_service", HDFS_SERVICE_NAME, HDFS_SERVICE_TYPE, <<>>),
      CP("create_service", YARN_SERVICE_NAME, YARN_SERVICE_TYPE, <<>>),
      CP("create_service", OOZIE_SERVICE_NAME, OOZIE_SERVICE_TYPE, <<>>)>>
    \o (IF get_hive_metastore(cl) # None
        THEN <<CP("create_service", HIVE_SERVICE_NAME, HIVE_SERVICE_TYPE, <<>>)>>
        ELSE <<>>)
    \o <<CP("create_service", HUE_SERVICE_NAME, HUE_SERVICE_TYPE, <<>>)>>
    \o (IF get_spark_historyserver(cl) # None
        THEN <<CP("create_service", SPARK_SERVICE_NAME, SPARK_SERVICE_TYPE, <<>>)>>
        ELSE <<>>)

\* _create_services: the calls it makes, in order
_create_services_calls(cl) ==
    <<CP("create_cluster", "", "", <<cl.name, CDH_VERSION>>),
      CP("create_service", HDFS_SERVICE_NAME, HDFS_SERVICE_TYPE, <<>>),
      CP("create_service", YARN_SERVICE_NAME, YARN_SERVICE_TYPE, <<>>),
      CP("create_service", OOZIE_SERVICE_NAME, OOZIE_SERVICE_TYPE, <<>>)>>
    \o (IF get_hive_metastore(cl) # None
        THEN <<CP("create_service", HIVE_SERVICE_NAME, HIVE_SERVICE_TYPE, <<>>)>>
        ELSE <<>>)
    \o (IF get_hue(cl) # None
        THEN <<CP("create_service", HUE_SERVICE_NAME, HUE_SERVICE_TYPE, <<>>)>>
        ELSE <<>>)
    \o (IF get_spark_historyserver(cl) # None
        THEN <<CP("create_service", SPARK_SERVICE_NAME, SPARK_SERVICE_TYPE, <<>>)>>
        ELSE <<>>)

\* svc = cm_cluster.get_service(name); svc.update_config(_get_configs(type,
\* cluster=cluster))
configure_service(cl, name, type) ==
    <<CP("get_service", name, "", <<>>),
      Op("update_config", name, "", <<>>, _get_configs(type, cl, None))>>

\* _configure_services: the calls it makes, in order
_configure_services_calls(cl) ==
    <<CP("get_cloudera_cluster", "", "", <<cl.name>>)>>
    \o configure_service(cl, HDFS_SERVICE_NAME, HDFS_SERVICE_TYPE)
    \o configure_service(cl, YARN_SERVICE_NAME, YARN_SERVICE_TYPE)
    \o configure_service(cl, OOZIE_SERVICE_NAME, OOZIE_SERVICE_TYPE)
    \o (IF get_hive_metastore(cl) # None
        THEN configure_service(cl, HIVE_SERVICE_NAME, HIVE_SERVICE_TYPE)
        ELSE <<>>)
    \o (IF get_hue(cl) # None
        THEN configure_service(cl, HUE_SERVICE_NAME, HUE_SERVICE_TYPE)
        ELSE <<>>)
    \o (IF get_spark_historyserver(cl) # None
        THEN configure_service(cl, SPARK_SERVICE_NAME, SPARK_SERVICE_TYPE)
        ELSE <<>>)

\* _add_role without "if process in ['MANAGER']: return"
_add_role_manager_too(cl, instance, process) ==
    LET service == IF process = "MANAGER" THEN "mgmt" ELSE service_of(process)
    IN <<CP("get_service", service, process, <<>>),
         CP("create_role", service, process,
            <<get_role_name(instance, process), fqdn(instance)>>),
         Op("role.update_config", service, process,
            <<get_role_name(instance, process)>>,
            _get_configs(process, None, node_group_of(cl, instance)))>>

\* _add_role(instance, process)
_add_role(cl, instance, process) ==
    IF process \in {"MANAGER"} THEN <<>>
    ELSE <<CP("get_service", service_of(process), process, <<>>),
           CP("create_role", service_of(process), process,
              <<get_role_name(instance, process), fqdn(instance)>>),
           Op("role.update_config", service_of(process), process,
              <<get_role_name(instance, process)>>,
              _get_configs(process, None, node_group_of(cl, instance)))>>

\* _configure_instance(instance)
_configure_instance(cl, instance) ==
    LET procs == node_group_of(cl, instance).node_processes
    IN Flatten([j \in DOMAIN procs |-> _add_role(cl, instance, procs[j])])

\* _configure_instances_calls(instances)
_configure_instances_calls(cl, insts) ==
    Flatten([j \in DOMAIN insts |-> _configure_instance(cl, insts[j])])

\* _configure_swift_to_inst(instance)
_configure_swift_to_inst(instance) ==
    <<R("curl hadoop-openstack.jar", instance),
      R("read_file_from core-site.xml", instance),
      R("write_file_to core-site.xml", instance)>>

\* _configure_hive(cluster)
_configure_hive(cl) ==
    <<R("create_hive_database", get_manager(cl)),
      R("hadoop fs -mkdir -p /tmp/hive-hive", get_namenode(cl)),
      R("hadoop fs -chown hive /tmp/hive-hive", get_namenode(cl))>>

\* _configure_spark(cluster)
_configure_spark(cl) ==
    LET spark == get_spark_historyserver(cl)
    IN <<R("hdfs dfs -mkdir -p /user/spark/applicationHistory", spark),
         R("hdfs dfs -mkdir -p /user/spark/share/lib", spark),
         R("hdfs dfs -put spark-assembly.jar", spark),
         R("hdfs dfs -chown -R spark:spark /user/spark", spark),
         R("hdfs dfs -chmod 0751 /user/spark", spark),
         R("hdfs dfs -chmod 1777 /user/spark/applicationHistory", spark)>>

\* _install_extjs(cluster): the library is fetched and unpacked unless
\* /var/lib/oozie/ext-2.2 is on the oozie machine already
_install_extjs(cl, nds) ==
    LET oozie == get_oozie(cl)
    IN <<R("ls /var/lib/oozie/ext-2.2", oozie)>>
       \o (IF "extjs" \notin nds[oozie.instance_name]
           THEN <<R("curl extjs.zip", oozie), R("unzip extjs.zip", oozie)>>
           ELSE <<>>)

\* start_cluster with the YARN service prepared and started before the HDFS
\* service
start_cluster_yarn_first(cl, nds) ==
    <<CP("get_cloudera_cluster", "", "", <<cl.name>>),
      CP("get_service", YARN_SERVICE_NAME, "", <<>>),
      CP("create_yarn_job_history_dir", YARN_SERVICE_NAME, "", <<>>),
      CP("start_service", YARN_SERVICE_NAME, "", <<>>),
      CP("get_service", HDFS_SERVICE_NAME, "", <<>>),
      CP("format_namenode", HDFS_SERVICE_NAME, "", <<>>),
      CP("start_service", HDFS_SERVICE_NAME, "", <<>>)>>
    \o (IF get_oozie(cl) # None
        THEN _install_extjs(cl, nds)
             \o <<CP("get_service", OOZIE_SERVICE_NAME, "", <<>>),
                  CP("create_oozie_db", OOZIE_SERVICE_NAME, "", <<>>),
                  CP("install_oozie_sharelib", OOZIE_SERVICE_NAME, "", <<>>),
                  CP("start_service", OOZIE_SERVICE_NAME, "", <<>>)>>
        ELSE <<>>)
    \o (IF get_hive_metastore(cl) # None
        THEN <<CP("get_service", HIVE_SERVICE_NAME, "", <<>>)>>
             \o _configure_hive(cl)
             \o <<CP("create_hive_metastore_db", HIVE_SERVICE_NAME, "", <<>>),
                  CP("create_hive_dirs", HIVE_SERVICE_NAME, "", <<>>),
                  CP("start_service", HIVE_SERVICE_NAME, "", <<>>)>>
        ELSE <<>>)
    \o (IF get_hue(cl) # None
        THEN <<CP("get_service", HUE_SERVICE_NAME, "", <<>>),
               CP("start_service", HUE_SERVICE_NAME, "", <<>>)>>
        ELSE <<>>)
    \o (IF get_spark_historyserver(cl) # None
        THEN _configure_spark(cl)
             \o <<CP("get_service", SPARK_SERVICE_NAME, "", <<>>),
                  CP("start_service", SPARK_SERVICE_NAME, "", <<>>)>>
        ELSE <<>>)

\* start_cluster(cluster): the calls it makes, in order
start_cluster_calls(cl, nds) ==
    <<CP("get_cloudera_cluster", "", "", <<cl.name>>),
      CP("get_service", HDFS_SERVICE_NAME, "", <<>>),
      CP("format_namenode", HDFS_SERVICE_NAME, "", <<>>),
      CP("start_service", HDFS_SERVICE_NAME, "", <<>>),
      CP("get_service", YARN_SERVICE_NAME, "", <<>>),
      CP("create_yarn_job_history_dir", YARN_SERVICE_NAME, "", <<>>),
      CP("start_service", YARN_SERVICE_NAME, "", <<>>)>>
    \o (IF get_oozie(cl) # None
        THEN _install_extjs(cl, nds)
             \o <<CP("get_service", OOZIE_SERVICE_NAME, "", <<>>),
                  CP("create_oozie_db", OOZIE_SERVICE_NAME, "", <<>>),
                  CP("install_oozie_sharelib", OOZIE_SERVICE_NAME, "", <<>>),
                  CP("start_service", OOZIE_SERVICE_NAME, "", <<>>)>>
        ELSE <<>>)
    \o (IF get_hive_metastore(cl) # None
        THEN <<CP("get_service", HIVE_SERVICE_NAME, "", <<>>)>>
             \o _configure_hive(cl)
             \o <<CP("create_hive_metastore_db", HIVE_SERVICE_NAME, "", <<>>),
                  CP("create_hive_dirs", HIVE_SERVICE_NAME, "", <<>>),
                  CP("start_service", HIVE_SERVICE_NAME, "", <<>>)>>
        ELSE <<>>)
    \o (IF get_hue(cl) # None
        THEN <<CP("get_service", HUE_SERVICE_NAME, "", <<>>),
               CP("start_service", HUE_SERVICE_NAME, "", <<>>)>>
        ELSE <<>>)
    \o (IF get_spark_historyserver(cl) # None
        THEN _configure_spark(cl)
             \o <<CP("get_service", SPARK_SERVICE_NAME, "", <<>>),
                  CP("start_service", SPARK_SERVICE_NAME, "", <<>>)>>
        ELSE <<>>)

\* the body of scale_cluster's loop with the refresh of the HDFS node list
\* made for every instance
scale_instance_refresh_always(cl, instance) ==
    LET procs == node_group_of(cl, instance).node_processes
    IN _configure_instance(cl, instance)
       \o <<CP("update_configs", "", "", <<instance.instance_name>>)>>
       \o <<CP("refresh_nodes", HDFS_SERVICE_NAME, "DATANODE", <<>>)>>
       \o _configure_swift_to_inst(instance)
       \o (IF In("DATANODE", procs)
           THEN <<CP("get_service", service_of("DATANODE"), "DATANODE", <<>>),
                  CP("start_roles", service_of("DATANODE"), "DATANODE",
                     <<get_role_name(instance, "DATANODE")>>)>>
           ELSE <<>>)
       \o (IF In("NODEMANAGER", procs)
           THEN <<CP("get_service", service_of("NODEMANAGER"), "NODEMANAGER",
                     <<>>),
                  CP("start_roles", service_of("NODEMANAGER"), "NODEMANAGER",
                     <<get_role_name(instance, "NODEMANAGER")>>)>>
           ELSE <<>>)

\* the body of scale_cluster's "for instance in instances"
scale_instance(cl, instance) ==
    LET procs == node_group_of(cl, instance).node_processes
    IN _configure_instance(cl, instance)
       \o <<CP("update_configs", "", "", <<instance.instance_name>>)>>
       \o (IF In("DATANODE", procs)
           THEN <<CP("refresh_nodes", HDFS_SERVICE_NAME, "DATANODE", <<>>)>>
           ELSE <<>>)
       \o _configure_swift_to_inst(instance)
       \o (IF In("DATANODE", procs)
           THEN <<CP("get_service", service_of("DATANODE"), "DATANODE", <<>>),
                  CP("start_roles", service_of("DATANODE"), "DATANODE",
                     <<get_role_name(instance, "DATANODE")>>)>>
           ELSE <<>>)
       \o (IF In("NODEMANAGER", procs)
           THEN <<CP("get_service", service_of("NODEMANAGER"), "NODEMANAGER",
                     <<>>),
                  CP("start_roles", service_of("NODEMANAGER"), "NODEMANAGER",
                     <<get_role_name(instance, "NODEMANAGER")>>)>>
           ELSE <<>>)

\* the role names decommission_cluster collects for a process
role_names(cl, insts, process) ==
    LET hosting == SelectSeq(insts, LAMBDA i :
                       In(process, node_group_of(cl, i).node_processes))
    IN [j \in DOMAIN hosting |-> get_role_name(hosting[j], process)]

\* cu.delete_instances(cluster, instances)
delete_instances(insts) ==
    CP("delete_instances", "", "",
       [j \in DOMAIN insts |-> insts[j].instance_name])

\* decommission_cluster with delete_instances ahead of the decommission
\* requests
decommission_delete_first(cl, insts) ==
    LET dns == role_names(cl, insts, "DATANODE")
        nms == role_names(cl, insts, "NODEMANAGER")
    IN <<delete_instances(insts)>>
       \o (IF dns # <<>>
           THEN <<CP("decommission_nodes", "", "DATANODE", dns)>> ELSE <<>>)
       \o (IF nms # <<>>
           THEN <<CP("decommission_nodes", "", "NODEMANAGER", nms)>> ELSE <<>>)
       \o <<CP("refresh_nodes", HDFS_SERVICE_NAME, "DATANODE", <<>>),
            CP("refresh_nodes", YARN_SERVICE_NAME, "NODEMANAGER", <<>>)>>

\* decommission_cluster with each refresh made only for a non-empty list
decommission_refresh_if_any(cl, insts) ==
    LET dns == role_names(cl, insts, "DATANODE")
        nms == role_names(cl, insts, "NODEMANAGER")
    IN (IF dns # <<>>
        THEN <<CP("decommission_nodes", "", "DATANODE", dns)>> ELSE <<>>)
       \o (IF nms # <<>>
           THEN <<CP("decommission_nodes", "", "NODEMANAGER", nms)>> ELSE <<>>)
       \o <<delete_instances(insts)>>
       \o (IF dns # <<>>
           THEN <<CP("refresh_nodes", HDFS_SERVICE_NAME, "DATANODE", <<>>)>>
           ELSE <<>>)
       \o (IF nms # <<>>
           THEN <<CP("refresh_nodes", YARN_SERVICE_NAME, "NODEMANAGER", <<>>)>>
           ELSE <<>>)

\* decommission_cluster(cluster, instances): the calls it makes, in order
decommission_calls(cl, insts) ==
    LET dns == role_names(cl, insts, "DATANODE")
        nms == role_names(cl, insts, "NODEMANAGER")
    IN (IF dns # <<>>
        THEN <<CP("decommission_nodes", "", "DATANODE", dns)>> ELSE <<>>)
       \o (IF nms # <<>>
           THEN <<CP("decommission_nodes", "", "NODEMANAGER", nms)>> ELSE <<>>)
       \o <<delete_instances(insts)>>
       \o <<CP("refresh_nodes", HDFS_SERVICE_NAME, "DATANODE", <<>>),
            CP("refresh_nodes", YARN_SERVICE_NAME, "NODEMANAGER", <<>>)>>

(***************************************************************************)
(* What the calls leave behind                                             *)
(***************************************************************************)
InstanceNames == {"mgr", "mst", "w1", "w2", "e1"}

\* the control plane before anything is created
cm_empty ==
    [mgmt |-> FALSE, cluster |-> FALSE, services |-> {}, configured |-> {},
     roles |-> {}, started |-> {}, started_roles |-> {},
     decommissioned |-> {}, deleted |-> {}]

\* the control plane after one call that returned
apply_cm(c, o) ==
    CASE o.op = "create_mgmt_service" -> [c EXCEPT !.mgmt = TRUE]
      [] o.op = "create_cluster" -> [c EXCEPT !.cluster = TRUE]
      [] o.op = "create_service" -> [c EXCEPT !.services = @ \cup {o.svc}]
      [] o.op = "update_config" -> [c EXCEPT !.configured = @ \cup {o.svc}]
      [] o.op = "create_role" -> [c EXCEPT !.roles = @ \cup {o.names[1]}]
      [] o.op = "start_service" -> [c EXCEPT !.started = @ \cup {o.svc}]
      [] o.op = "start_roles" ->
             [c EXCEPT !.started_roles = @ \cup Range(o.names)]
      [] o.op = "decommission_nodes" ->
             [c EXCEPT !.decommissioned = @ \cup Range(o.names)]
      [] o.op = "delete_instances" ->
             [c EXCEPT !.deleted = @ \cup Range(o.names)]
      [] OTHER -> c

\* the machines after one call that returned
apply_nodes(nds, o) ==
    CASE o.op = "write_file_to core-site.xml" ->
             [nds EXCEPT ![o.names[1]] = @ \cup {"swift"}]
      [] o.op = "unzip extjs.zip" ->
             [nds EXCEPT ![o.names[1]] = @ \cup {"extjs"}]
      [] o.op = "start_cloudera_db" ->
             [nds EXCEPT ![o.names[1]] = @ \cup {"cm_db"}]
      [] o.op = "start_manager" ->
             [nds EXCEPT ![o.names[1]] = @ \cup {"cm_server"}]
      [] o.op = "delete_instances" ->
             [n \in DOMAIN nds |-> IF In(n, o.names) THEN {} ELSE nds[n]]
      [] OTHER -> nds

RECURSIVE apply_all_cm(_, _)
apply_all_cm(c, ops) ==
    IF ops = <<>> THEN c ELSE apply_all_cm(apply_cm(c, ops[1]), Tail(ops))

RECURSIVE apply_all_nodes(_, _)
apply_all_nodes(nds, ops) ==
    IF ops = <<>> THEN nds
    ELSE apply_all_nodes(apply_nodes(nds, ops[1]), Tail(ops))

(***************************************************************************)
(* The orchestrators                                                       *)
(***************************************************************************)
\* _await_agents: timeout = 300, context.sleep(5)
AGENTS_TIMEOUT == 300
AGENTS_INTERVAL == 5
\* _start_cloudera_manager: timeout = 300, context.sleep(2)
MANAGER_TIMEOUT == 300
MANAGER_INTERVAL == 2

\* how long one evaluation of a poller's predicate (a connection attempt, a
\* get_all_hosts call) may take, in seconds
MaxEvalDur == 2
\* how many scale_cluster / decommission_cluster calls follow the start
MaxCalls == 1

Names(insts) == {insts[j].instance_name : j \in DOMAIN insts}

\* the lists without repetition of the elements of a set
Lists(S) ==
    {l \in UNION {[1..n -> S] : n \in 0..Cardinality(S)} :
        \A i, j \in DOMAIN l : i # j => l[i] # l[j]}

\* the cluster with new instances added to their node groups
add_instances(cl, insts) ==
    [cl EXCEPT !.node_groups =
        [g \in DOMAIN @ |->
            [@[g] EXCEPT !.instances =
                @ \o SelectSeq(insts, LAMBDA i :
                         i.node_group_name = cl.node_groups[g].name)]]]

\* the cluster with instances removed from their node groups
remove_instances(cl, insts) ==
    [cl EXCEPT !.node_groups =
        [g \in DOMAIN @ |->
            [@[g] EXCEPT !.instances =
                SelectSeq(@, LAMBDA i : ~In(i, insts))]]]

\* The calls ops are made in order, after those of base: all of them return
\* and the function goes on at next, or one of them raises, which ends the
\* orchestrator call.
Run(base, ops, next) ==
    \E n \in 0..Len(ops) :
        LET returned == SubSeq(ops, 1, n)
        IN /\ cm' = apply_all_cm(cm, returned)
           /\ nodes' = apply_all_nodes(nodes, returned)
           /\ IF n = Len(ops)
              THEN /\ log' = base \o returned
                   /\ pc' = next
                   /\ err' = "none"
              ELSE /\ log' = base \o returned \o <<Raised(ops[n + 1])>>
                   /\ pc' = "error"
                   /\ err' = "RemoteFailure"

\* the stage of the cluster once the call stands at newpc
stage_at(newpc) ==
    IF newpc # "idle" THEN stage
    ELSE CASE fn = "configure_cluster" -> "configured"
           [] fn = "start_cluster" -> "started"
           [] OTHER -> stage

cfgVars == <<mergeVars, gcVars, portVars, heapVars>>
pollVars == <<elapsed, is_ok, hostnames_to_manager>>
topoVars == <<cluster, swift_enabled, calls>>

\* configure_cluster going from the pre-installed check straight to
\* _install_packages, without _configure_os
configure_cluster_skip_os ==
    /\ stage = "new"
    /\ pc = "idle"
    /\ fn' = "configure_cluster"
    /\ instances' = get_instances(cluster)
    /\ log' = <<R("is_pre_installed_cdh", get_manager(cluster))>>
    /\ \E b \in BOOLEAN :
          /\ pre_installed' = b
          /\ pc' = IF b THEN "_start_cloudera_agents" ELSE "_install_packages"
    /\ UNCHANGED <<cfgVars, topoVars, stage, err, tg, pollVars, loop_i, cm, nodes>>

\* configure_cluster(cluster), up to its first fan-out
configure_cluster ==
    /\ stage = "new"
    /\ pc = "idle"
    /\ fn' = "configure_cluster"
    /\ instances' = get_instances(cluster)
    /\ log' = <<R("is_pre_installed_cdh", get_manager(cluster))>>
    /\ \E b \in BOOLEAN :
          /\ pre_installed' = b
          /\ pc' = IF b THEN "_start_cloudera_agents" ELSE "_configure_os"
    /\ UNCHANGED <<cfgVars, topoVars, stage, err, tg, pollVars, loop_i, cm, nodes>>

\* the fan-out with no unit spawned for the first instance
spawn_all_but_first(phase) ==
    /\ pc = phase
    /\ tg = None
    /\ tg' = [n \in Names(Tail(instances)) |-> "spawned"]
    /\ UNCHANGED <<cfgVars, topoVars, stage, fn, pc, err, instances, pre_installed,
                   pollVars, loop_i, log, cm, nodes>>

\* "with context.ThreadGroup() as tg: for i in instances: tg.spawn(...)"
spawn_all(phase) ==
    /\ pc = phase
    /\ tg = None
    /\ tg' = [n \in Names(instances) |-> "spawned"]
    /\ UNCHANGED <<cfgVars, topoVars, stage, fn, pc, err, instances, pre_installed,
                   pollVars, loop_i, log, cm, nodes>>

_configure_os == spawn_all("_configure_os")

_install_packages == spawn_all("_install_packages")

_start_cloudera_agents == spawn_all("_start_cloudera_agents")

_configure_swift == spawn_all("_configure_swift")

\* what a unit of each fan-out leaves on its machine: _configure_repo_from_inst,
\* _install_pkgs, _start_cloudera_agent, _configure_swift_to_inst
unit_effect(phase) ==
    CASE phase = "_configure_os" -> "repo"
      [] phase = "_install_packages" -> "packages"
      [] phase = "_start_cloudera_agents" -> "agent"
      [] phase = "_configure_swift" -> "swift"

\* a spawned unit starts to run
unit_start ==
    /\ tg # None
    /\ \E n \in DOMAIN tg :
          /\ tg[n] = "spawned"
          /\ tg' = [tg EXCEPT ![n] = "running"]
    /\ UNCHANGED <<cfgVars, topoVars, stage, fn, pc, err, instances, pre_installed,
                   pollVars, loop_i, log, cm, nodes>>

\* a running unit ends: its remote operations are done, or one of them raised
unit_finish ==
    /\ tg # None
    /\ \E n \in DOMAIN tg :
          /\ tg[n] = "running"
          /\ \/ /\ tg' = [tg EXCEPT ![n] = "done"]
                /\ nodes' = [nodes EXCEPT ![n] = @ \cup {unit_effect(pc)}]
             \/ /\ tg' = [tg EXCEPT ![n] = "failed"]
                /\ UNCHANGED nodes
    /\ UNCHANGED <<cfgVars, topoVars, stage, fn, pc, err, instances, pre_installed,
                   pollVars, loop_i, log, cm>>

\* where the orchestrator goes on after a fan-out
after_fan_out(phase) ==
    CASE phase = "_configure_os" -> "_install_packages"
      [] phase = "_install_packages" -> "_start_cloudera_agents"
      [] phase = "_start_cloudera_agents" ->
             IF fn = "configure_cluster" THEN "_start_cloudera_manager"
             ELSE "_await_agents"
      [] phase = "_configure_swift" -> "idle"

\* ThreadGroup.__exit__: every unit has ended; the group raises if one failed
ThreadGroup_exit ==
    /\ tg # None
    /\ \A n \in DOMAIN tg : tg[n] \in {"done", "failed"}
    /\ tg' = None
    /\ IF \E n \in DOMAIN tg : tg[n] = "failed"
       THEN /\ pc' = "error"
            /\ err' = "ThreadException"
            /\ log' = Append(log, Raised(Op(pc, "", "",
                          [j \in DOMAIN instances |->
                              instances[j].instance_name], EmptyDict)))
       ELSE /\ pc' = after_fan_out(pc)
            /\ err' = err
            /\ log' = Append(log, Op(pc, "", "",
                          [j \in DOMAIN instances |->
                              instances[j].instance_name], EmptyDict))
    /\ stage' = stage_at(pc')
    /\ UNCHANGED <<cfgVars, topoVars, fn, instances, pre_installed, pollVars, loop_i,
                   cm, nodes>>

\* _start_cloudera_manager, up to "s_time = timeutils.utcnow()"
_start_cloudera_manager ==
    /\ pc = "_start_cloudera_manager"
    /\ Run(log, <<R("start_cloudera_db", get_manager(cluster)),
                  R("start_manager", get_manager(cluster))>>, "manager_while")
    /\ elapsed' = 0
    /\ UNCHANGED <<cfgVars, topoVars, stage, fn, instances, pre_installed, tg, is_ok,
                   hostnames_to_manager, loop_i>>

\* "while delta_seconds(s_time, utcnow()) < timeout: ... else: raise"
manager_while ==
    /\ pc = "manager_while"
    /\ IF elapsed < MANAGER_TIMEOUT
       THEN /\ pc' = "manager_try"
            /\ UNCHANGED <<err, log>>
       ELSE /\ pc' = "error"
            /\ err' = "HadoopProvisionError"
            /\ log' = Append(log, Raised(CP("_start_cloudera_manager", "", "",
                                            <<>>)))
    /\ UNCHANGED <<cfgVars, topoVars, stage, fn, instances, pre_installed, tg, pollVars,
                   loop_i, cm, nodes>>

\* "conn = telnetlib.Telnet(manager.management_ip, CM_API_PORT)": the
\* attempt takes some time and connects or raises IOError
manager_try ==
    /\ pc = "manager_try"
    /\ \E d \in 0..MaxEvalDur, connected \in BOOLEAN :
          /\ elapsed' = elapsed + d
          /\ is_ok' = connected
    /\ pc' = "manager_branch"
    /\ UNCHANGED <<cfgVars, topoVars, stage, fn, err, instances, pre_installed, tg,
                   hostnames_to_manager, loop_i, log, cm, nodes>>

\* the loop goes on from the branch although the connection succeeded
manager_branch_no_break ==
    /\ pc = "manager_branch"
    /\ pc' = "manager_sleep"
    /\ UNCHANGED <<cfgVars, topoVars, stage, fn, err, instances, pre_installed,
                   tg, pollVars, loop_i, log, cm, nodes>>

\* the branch with the IOError of a failed connection attempt not caught: it
\* ends the orchestrator
manager_branch_no_except ==
    /\ pc = "manager_branch"
    /\ IF is_ok
       THEN /\ pc' = "_await_agents"
            /\ log' = Append(log, CP("_start_cloudera_manager", "", "", <<>>))
            /\ elapsed' = 0
            /\ is_ok' = FALSE
            /\ err' = err
       ELSE /\ pc' = "error"
            /\ err' = "IOError"
            /\ log' = Append(log, Raised(CP("Telnet", "", "", <<>>)))
            /\ UNCHANGED <<elapsed, is_ok>>
    /\ UNCHANGED <<cfgVars, topoVars, stage, fn, instances, pre_installed,
                   tg, hostnames_to_manager, loop_i, cm, nodes>>

\* "conn.close(); break" and the rest of the function, or "except IOError:"
manager_branch ==
    /\ pc = "manager_branch"
    /\ IF is_ok
       THEN /\ pc' = "_await_agents"
            /\ log' = Append(log, CP("_start_cloudera_manager", "", "", <<>>))
            /\ elapsed' = 0
            /\ is_ok' = FALSE
       ELSE /\ pc' = "manager_sleep"
            /\ UNCHANGED <<elapsed, is_ok, log>>
    /\ UNCHANGED <<cfgVars, topoVars, stage, fn, err, instances, pre_installed,
                   tg, hostnames_to_manager, loop_i, cm, nodes>>

\* "context.sleep(2)"
manager_sleep ==
    /\ pc = "manager_sleep"
    /\ pc' = "manager_while"
    /\ elapsed' = elapsed + MANAGER_INTERVAL
    /\ UNCHANGED <<cfgVars, topoVars, stage, fn, err, instances, pre_installed,
                   tg, is_ok, hostnames_to_manager, loop_i, log, cm, nodes>>

\* _await_agents, up to "s_time = timeutils.utcnow()"
_await_agents ==
    /\ pc = "_await_agents"
    /\ pc' = "agents_while"
    /\ elapsed' = 0
    /\ UNCHANGED <<cfgVars, topoVars, stage, fn, err, instances, pre_installed, tg,
                   is_ok, hostnames_to_manager, loop_i, log, cm, nodes>>

\* "while delta_seconds(s_time, utcnow()) < timeout: ... else: raise"
agents_while ==
    /\ pc = "agents_while"
    /\ IF elapsed < AGENTS_TIMEOUT
       THEN /\ pc' = "agents_poll"
            /\ UNCHANGED <<err, log>>
       ELSE /\ pc' = "error"
            /\ err' = "HadoopProvisionError"
            /\ log' = Append(log, Raised(CP("_await_agents", "", "", <<>>)))
    /\ UNCHANGED <<cfgVars, topoVars, stage, fn, instances, pre_installed, tg, pollVars,
                   loop_i, cm, nodes>>

\* what api.get_all_hosts('full') may answer: every host of the cluster, all
\* but the first instance waited for, or none
host_snapshots ==
    LET all == {fqdn(i) : i \in Range(get_instances(cluster))}
    IN {all, all \ {fqdn(instances[1])}, {}}

\* the predicate with "some" for "every"
some_registered(hostnames, snapshot) ==
    \E j \in DOMAIN hostnames : hostnames[j] \in snapshot

\* the predicate of _await_agents: every hostname is in the snapshot
all_registered(hostnames, snapshot) ==
    \A j \in DOMAIN hostnames : hostnames[j] \in snapshot

\* one evaluation of the predicate: the hostnames, the get_all_hosts call
\* (which takes some time, and may raise), is_ok
agents_poll ==
    /\ pc = "agents_poll"
    /\ \E d \in 0..MaxEvalDur :
          /\ elapsed' = elapsed + d
          /\ \/ \E snapshot \in host_snapshots :
                   /\ hostnames_to_manager' = snapshot
                   /\ is_ok' = all_registered(
                          [j \in DOMAIN instances |-> fqdn(instances[j])],
                          snapshot)
                   /\ pc' = "agents_branch"
                   /\ UNCHANGED <<err, log>>
             \/ /\ pc' = "error"
                /\ err' = "RemoteFailure"
                /\ log' = Append(log, Raised(CP("get_all_hosts", "", "", <<>>)))
                /\ UNCHANGED <<is_ok, hostnames_to_manager>>
    /\ UNCHANGED <<cfgVars, topoVars, stage, fn, instances, pre_installed, tg, loop_i,
                   cm, nodes>>

\* "if not is_ok: ... else: break", and the return of _await_agents
agents_branch ==
    /\ pc = "agents_branch"
    /\ IF ~is_ok
       THEN /\ pc' = "agents_sleep"
            /\ UNCHANGED <<pollVars, log, loop_i>>
       ELSE /\ pc' = IF fn = "configure_cluster" THEN "_configure_manager"
                     ELSE "scale_loop"
            /\ log' = Append(log, CP("_await_agents", "", "", <<>>))
            /\ elapsed' = 0
            /\ is_ok' = FALSE
            /\ hostnames_to_manager' = {}
            /\ loop_i' = 1
    /\ UNCHANGED <<cfgVars, topoVars, stage, fn, err, instances, pre_installed,
                   tg, cm, nodes>>

\* "context.sleep(5)"
agents_sleep ==
    /\ pc = "agents_sleep"
    /\ pc' = "agents_while"
    /\ elapsed' = elapsed + AGENTS_INTERVAL
    /\ hostnames_to_manager' = {}
    /\ UNCHANGED <<cfgVars, topoVars, stage, fn, err, instances, pre_installed,
                   tg, is_ok, loop_i, log, cm, nodes>>

\* _configure_manager(cluster)
_configure_manager ==
    /\ pc = "_configure_manager"
    /\ Run(log, <<CP("create_mgmt_service", "", "", <<>>)>>, "_create_services")
    /\ UNCHANGED <<cfgVars, topoVars, stage, fn, instances, pre_installed, tg, pollVars,
                   loop_i>>

_create_services ==
    /\ pc = "_create_services"
    /\ Run(log, _create_services_calls(cluster), "_configure_services")
    /\ UNCHANGED <<cfgVars, topoVars, stage, fn, instances, pre_installed, tg, pollVars,
                   loop_i>>

_configure_services ==
    /\ pc = "_configure_services"
    /\ Run(log, _configure_services_calls(cluster), "_configure_instances")
    /\ UNCHANGED <<cfgVars, topoVars, stage, fn, instances, pre_installed, tg, pollVars,
                   loop_i>>

_configure_instances ==
    /\ pc = "_configure_instances"
    /\ Run(log, _configure_instances_calls(cluster, instances),
           "deploy_configs")
    /\ UNCHANGED <<cfgVars, topoVars, stage, fn, instances, pre_installed, tg, pollVars,
                   loop_i>>

\* "cu.deploy_configs(cluster)" and "if c_helper.is_swift_enabled(cluster)"
deploy_configs ==
    /\ pc = "deploy_configs"
    /\ Run(log, <<CP("deploy_configs", "", "", <<>>)>>,
           IF swift_enabled THEN "_configure_swift" ELSE "idle")
    /\ stage' = stage_at(pc')
    /\ UNCHANGED <<cfgVars, topoVars, fn, instances, pre_installed, tg, pollVars,
                   loop_i>>

\* start_cluster(cluster)
start_cluster ==
    /\ stage = "configured"
    /\ pc = "idle"
    /\ fn' = "start_cluster"
    /\ instances' = <<>>
    /\ Run(<<>>, start_cluster_calls(cluster, nodes), "idle")
    /\ stage' = IF pc' = "idle" THEN "started" ELSE stage
    /\ UNCHANGED <<cfgVars, topoVars, pre_installed, tg, pollVars, loop_i>>

\* the instances scale_cluster may be given: new instances of the worker and
\* edge node groups; the name of a deleted instance is not given again
spare_instances ==
    {i \in {Instance("w1", "worker"), Instance("w2", "worker"),
            Instance("e1", "edge")} :
        /\ i \notin Range(get_instances(cluster))
        /\ i.instance_name \notin cm.deleted}

\* scale_cluster without "if not instances: return", the pre-installed check
\* made on the manager as configure_cluster makes it
scale_cluster_unguarded ==
    /\ stage = "started"
    /\ pc = "idle"
    /\ calls < MaxCalls
    /\ calls' = calls + 1
    /\ fn' = "scale_cluster"
    /\ \E delta \in Lists(spare_instances) :
          /\ instances' = delta
          /\ cluster' = add_instances(cluster, delta)
          /\ log' = <<R("is_pre_installed_cdh", get_manager(cluster))>>
          /\ \E b \in BOOLEAN :
                /\ pre_installed' = b
                /\ pc' = IF b THEN "_start_cloudera_agents" ELSE "_configure_os"
    /\ UNCHANGED <<cfgVars, swift_enabled, stage, err, tg, pollVars, loop_i, cm,
                   nodes>>

\* scale_cluster(cluster, instances), up to its first fan-out; the caller has
\* added the instances to their node groups
scale_cluster ==
    /\ stage = "started"
    /\ pc = "idle"
    /\ calls < MaxCalls
    /\ calls' = calls + 1
    /\ fn' = "scale_cluster"
    /\ \E delta \in Lists(spare_instances) :
          /\ instances' = delta
          /\ cluster' = add_instances(cluster, delta)
          /\ \/ /\ delta = <<>>
                /\ pc' = "idle"
                /\ log' = <<>>
                /\ UNCHANGED pre_installed
             \/ /\ delta # <<>>
                /\ log' = <<R("is_pre_installed_cdh", delta[1])>>
                /\ \E b \in BOOLEAN :
                      /\ pre_installed' = b
                      /\ pc' = IF b THEN "_start_cloudera_agents"
                               ELSE "_configure_os"
    /\ UNCHANGED <<cfgVars, swift_enabled, stage, err, tg, pollVars, loop_i, cm, nodes>>

\* one turn of scale_cluster's "for instance in instances"
scale_loop ==
    /\ pc = "scale_loop"
    /\ loop_i <= Len(instances)
    /\ Run(log, scale_instance(cluster, instances[loop_i]),
           IF loop_i = Len(instances) THEN "idle" ELSE "scale_loop")
    /\ loop_i' = loop_i + 1
    /\ UNCHANGED <<cfgVars, topoVars, stage, fn, instances, pre_installed, tg, pollVars>>

\* the instances decommission_cluster may be given: instances of the worker
\* and edge node groups
removable_instances ==
    {i \in Range(get_instances(cluster)) :
        i.node_group_name \in {"worker", "edge"}}

\* decommission_cluster(cluster, instances); the caller drops the instances
\* from their node groups afterwards
decommission_cluster ==
    /\ stage = "started"
    /\ pc = "idle"
    /\ calls < MaxCalls
    /\ calls' = calls + 1
    /\ fn' = "decommission_cluster"
    /\ \E insts \in Lists(removable_instances) :
          /\ instances' = insts
          /\ Run(<<>>, decommission_calls(cluster, insts), "idle")
          /\ cluster' = IF pc' = "idle" THEN remove_instances(cluster, insts)
                        ELSE cluster
    /\ UNCHANGED <<cfgVars, swift_enabled, stage, pre_installed, tg, pollVars, loop_i>>

(***************************************************************************)
(* Spec: the life of one cluster                                           *)
(***************************************************************************)
\* a cluster of a manager, a master, workers and an edge node group
Topology(master, edge, workers, edges) ==
    Cluster("cluster1", [HDFS |-> [dfs_replication |-> "2"]],
            <<NodeGroup("manager", <<"MANAGER">>, <<"/mnt">>, EmptyDict,
                        <<Instance("mgr", "manager")>>),
              NodeGroup("master", master, <<"/mnt">>, EmptyDict,
                        <<Instance("mst", "master")>>),
              NodeGroup("worker", <<"DATANODE", "NODEMANAGER">>,
                        <<"/mnt", "/vol">>,
                        [DATANODE |-> [dfs_datanode_du_reserved |-> "1"]],
                        workers),
              NodeGroup("edge", edge, <<"/mnt">>, EmptyDict, edges)>>)

W1 == Instance("w1", "worker")
W2 == Instance("w2", "worker")
E1 == Instance("e1", "edge")

\* the clusters checked, each with whether swift is enabled: with and
\* without an oozie server, a metastore, a hue server, a spark history
\* server; edge instances that are data nodes only, node managers only, or
\* neither; with one or two instances left to scale by
Topologies ==
    {<<Topology(<<"NAMENODE", "RESOURCEMANAGER">>, <<"HUE_SERVER">>,
                <<W1, W2>>, <<>>), FALSE>>,
     <<Topology(<<"NAMENODE", "RESOURCEMANAGER", "OOZIE_SERVER">>,
                <<"HIVEMETASTORE">>, <<W1>>, <<E1>>), TRUE>>,
     <<Topology(<<"NAMENODE", "RESOURCEMANAGER", "OOZIE_SERVER">>,
                <<"SPARK_YARN_HISTORY_SERVER">>, <<W1>>, <<E1>>), FALSE>>,
     <<Topology(<<"NAMENODE", "RESOURCEMANAGER">>, <<"NODEMANAGER">>,
                <<W1>>, <<>>), TRUE>>,
     <<Topology(<<"NAMENODE", "RESOURCEMANAGER", "OOZIE_SERVER">>,
                <<"DATANODE">>, <<W1>>, <<E1>>), FALSE>>,
     <<Topology(<<"NAMENODE", "RESOURCEMANAGER", "OOZIE_SERVER">>,
                <<"HUE_SERVER">>, <<W1>>, <<E1>>), TRUE>>}

InitOrchWith(cl, swift) ==
    /\ cluster = cl
    /\ swift_enabled = swift
    /\ stage = "new"
    /\ calls = 0
    /\ fn = "none"
    /\ pc = "idle"
    /\ err = "none"
    /\ instances = <<>>
    /\ pre_installed = FALSE
    /\ tg = None
    /\ elapsed = 0
    /\ is_ok = FALSE
    /\ hostnames_to_manager = {}
    /\ loop_i = 1
    /\ log = <<>>
    /\ cm = cm_empty
    /\ nodes = [n \in InstanceNames |-> {}]

InitOrch == \E t \in Topologies : InitOrchWith(t[1], t[2])

InitOrchIdle ==
    InitOrchWith(Topology(<<"NAMENODE", "RESOURCEMANAGER">>, <<"HUE_SERVER">>,
                          <<W1, W2>>, <<>>), FALSE)

Next ==
    \/ configure_cluster
    \/ _configure_os
    \/ _install_packages
    \/ _start_cloudera_agents
    \/ _configure_swift
    \/ unit_start
    \/ unit_finish
    \/ ThreadGroup_exit
    \/ _start_cloudera_manager
    \/ manager_while
    \/ manager_try
    \/ manager_branch
    \/ manager_sleep
    \/ _await_agents
    \/ agents_while
    \/ agents_poll
    \/ agents_branch
    \/ agents_sleep
    \/ _configure_manager
    \/ _create_services
    \/ _configure_services
    \/ _configure_instances
    \/ deploy_configs
    \/ start_cluster
    \/ scale_cluster
    \/ scale_loop
    \/ decommission_cluster

(***************************************************************************)
(* SpecMerge: a fold of _merge_dicts over layers drawn from LayerSet       *)
(***************************************************************************)
MaxLayers == 3
MaxVal == 2

\* the settings of one service: every partial map from {a, b} to 1..MaxVal,
\* and {a: 2, b: 3}
SettingMaps ==
    (UNION {[K -> 1..MaxVal] : K \in SUBSET {"a", "b"}}) \cup {[a |-> 2, b |-> 3]}

LayerSet ==
    {EmptyDict, [HUE |-> [a |-> 1]], [HIVE |-> [a |-> 1], HUE |-> [a |-> 1]]}
    \cup {[HIVE |-> m] : m \in SettingMaps}

InitMerge ==
    /\ layers \in UNION {[1..n -> LayerSet] : n \in 1..MaxLayers}
    /\ acc = EmptyDict
    /\ idx = 0

\* all_confs = <the first layer>
MergeFirst ==
    /\ idx = 0
    /\ acc' = layers[1]
    /\ idx' = 1
    /\ UNCHANGED <<layers, gcVars, portVars, heapVars, orchVars>>

\* all_confs = _merge_dicts(all_confs, <the next layer>)
MergeNext ==
    /\ idx >= 1
    /\ idx < Len(layers)
    /\ acc' = _merge_dicts(acc, layers[idx + 1])
    /\ idx' = idx + 1
    /\ UNCHANGED <<layers, gcVars, portVars, heapVars, orchVars>>

(***************************************************************************)
(* SpecGetConfigs: _get_configs called on objects drawn from small sets    *)
(***************************************************************************)
MaxPaths == 2

MountPoints == <<"/mnt", "/vol", "/data">>

\* node_group.storage_paths(): the first n mount points, n up to MaxPaths
StoragePathLists == {SubSeq(MountPoints, 1, n) : n \in 0..MaxPaths}

\* the restrictions of a dict to none, one or all of its keys
SomeRestrictions(d) ==
    {Restrict(d, K) : K \in {{}, DOMAIN d} \cup {{k} : k \in DOMAIN d}}

\* node_group.node_configs: these settings, restricted to none, one or all
\* of their targets
NgUserConfsFull ==
    [DATANODE |-> [dfs_data_dir_list |-> "/user/dn",
                   dfs_datanode_du_reserved |-> "1"],
     NODEMANAGER |-> [yarn_nodemanager_local_dirs |-> "/user/nm"],
     HUE |-> [hue_webhdfs |-> "ng_nn"]]

NgUserConfsSet == SomeRestrictions(NgUserConfsFull)

\* cluster.cluster_configs: likewise
ClusterConfsFull ==
    [HIVE |-> [hive_metastore_database_port |-> "5432"],
     HUE |-> [hue_webhdfs |-> "cluster_nn"],
     YARN |-> [hdfs_service |-> "hdfs02"],
     DATANODE |-> [dfs_data_dir_list |-> "/cluster/dn"],
     HDFS |-> [dfs_replication |-> "2"]]

ClusterConfsSet == SomeRestrictions(ClusterConfsFull)

\* the service argument: the service types, the processes, and a name that
\* nothing configures
ServiceArgs ==
    {"HDFS", "YARN", "OOZIE", "HIVE", "HUE", "NAMENODE", "SECONDARYNAMENODE",
     "DATANODE", "NODEMANAGER", "ZOOKEEPER"}

GcWorkers(paths, confs) ==
    NodeGroup("worker", <<"DATANODE", "NODEMANAGER">>, paths, confs,
              <<Instance("w1", "worker")>>)

GcCluster(confs, workers) ==
    Cluster("cluster1", confs,
            <<NodeGroup("manager", <<"MANAGER">>, <<"/mnt">>, EmptyDict,
                        <<Instance("mgr", "manager")>>),
              NodeGroup("master", <<"NAMENODE", "RESOURCEMANAGER">>, <<"/mnt">>,
                        EmptyDict, <<Instance("mst", "master")>>),
              workers>>)

InitGetConfigs ==
    \E paths \in StoragePathLists, nc \in NgUserConfsSet, cc \in ClusterConfsSet :
        /\ gc_node_group = GcWorkers(paths, nc)
        /\ gc_cluster = GcCluster(cc, GcWorkers(paths, nc))
        /\ gc_call = None
        /\ gc_result = None

\* one call _get_configs(service, cluster=..., node_group=...)
GetConfigsCall ==
    \E service \in ServiceArgs, c \in {None, gc_cluster},
       ng \in {None, gc_node_group} :
        /\ gc_call' = [service |-> service, cluster |-> c, node_group |-> ng]
        /\ gc_result' = _get_configs(service, c, ng)
        /\ UNCHANGED <<gc_cluster, gc_node_group, mergeVars, portVars, heapVars,
                       orchVars>>

(***************************************************************************)
(* SpecPorts: get_open_ports on node groups of up to MaxProcs processes    *)
(***************************************************************************)
\* "ports = [9000]  # for CM agent"
AGENT_PORT == 9000

ports_map ==
    [MANAGER |-> <<7180, 7182, 7183, 7432, 7184, 8084, 8086, 10101,
                   9997, 9996, 8087, 9998, 9999, 8085, 9995, 9994>>,
     NAMENODE |-> <<8020, 8022, 50070, 50470>>,
     SECONDARYNAMENODE |-> <<50090, 50495>>,
     DATANODE |-> <<50010, 1004, 50075, 1006, 50020>>,
     RESOURCEMANAGER |-> <<8030, 8031, 8032, 8033, 8088>>,
     NODEMANAGER |-> <<8040, 8041, 8042>>,
     JOBHISTORY |-> <<10020, 19888>>,
     HIVEMETASTORE |-> <<9083>>,
     HIVESERVER2 |-> <<10000>>,
     HUE_SERVER |-> <<8888>>,
     OOZIE_SERVER |-> <<11000, 11001>>,
     SPARK_YARN_HISTORY_SERVER |-> <<18088>>]

\* ports after the first n turns of "for process in node_group.node_processes"
\* with "ports = ports_map[process]" for "ports.extend(ports_map[process])"
RECURSIVE ports_assigned(_, _)
ports_assigned(procs, n) ==
    IF n = 0 THEN <<AGENT_PORT>>
    ELSE IF procs[n] \in DOMAIN ports_map
         THEN ports_map[procs[n]]
         ELSE ports_assigned(procs, n - 1)

\* ports after the first n turns of "for process in node_group.node_processes"
RECURSIVE ports_after(_, _)
ports_after(procs, n) ==
    IF n = 0 THEN <<AGENT_PORT>>
    ELSE IF procs[n] \in DOMAIN ports_map
         THEN ports_after(procs, n - 1) \o ports_map[procs[n]]
         ELSE ports_after(procs, n - 1)

get_open_ports(node_group) ==
    ports_after(node_group.node_processes, Len(node_group.node_processes))

MaxProcs == 2

\* the processes a node group may declare: those of the table, and two the
\* table does not know
ProcessNames == DOMAIN ports_map \cup {"ZOOKEEPER", "IMPALAD"}

ProcessLists == UNION {[1..n -> ProcessNames] : n \in 0..MaxProcs}

\* node groups that differ in more than their processes
PortNodeGroups ==
    {NodeGroup(name, procs, paths, confs, <<>>) :
        name \in {"worker"}, procs \in ProcessLists,
        paths \in {<<>>, <<"/mnt">>},
        confs \in {EmptyDict, [DATANODE |-> [dfs_datanode_du_reserved |-> "1"]]}}

InitPorts ==
    /\ gp_node_group \in PortNodeGroups
    /\ gp_ports = <<>>

InitPortsIdle ==
    /\ gp_node_group = NodeGroup("worker", <<>>, <<>>, EmptyDict, <<>>)
    /\ gp_ports = <<>>

GetOpenPortsCall ==
    /\ gp_ports = <<>>
    /\ gp_ports' = get_open_ports(gp_node_group)
    /\ UNCHANGED <<gp_node_group, mergeVars, gcVars, heapVars, orchVars>>

(***************************************************************************)
(* SpecHeap: _get_configs on a heap of dict objects.  A dict is an object  *)
(* at an address; the value of a service in an outer dict is the address   *)
(* of the service's dict, so that two dicts may share one.                 *)
(***************************************************************************)
\* the keys of a dict in the order the iteration visits them
RECURSIVE iteritems(_)
iteritems(keys) ==
    IF keys = {} THEN <<>>
    ELSE LET k == CHOOSE k \in keys : TRUE
         IN <<k>> \o iteritems(keys \ {k})

\* the element of a set of one.  the({F(x) : x \in {e}}) is F(e) with e
\* evaluated once, whatever the number of times F uses its argument
the(S) == CHOOSE x \in S : TRUE

\* the evaluation of the inner dicts of a literal {service: {...}, ...}:
\* the heap after it and the outer dict, service -> address
RECURSIVE new_inner_dicts(_, _, _)
new_inner_dicts(h, d, services) ==
    IF services = <<>> THEN [h |-> h, d |-> EmptyDict]
    ELSE the({[h |-> Append(r.h, d[Head(services)]),
               d |-> dict_update(r.d, [k \in {Head(services)} |->
                                          Len(r.h) + 1])] :
                 r \in {new_inner_dicts(h, d, Tail(services))}})

\* the evaluation of a literal {service: {...}, ...}: the heap after it; the
\* new outer dict is its last object
new_dict(h, d) ==
    the({Append(r.h, r.d) :
            r \in {new_inner_dicts(h, d, iteritems(DOMAIN d))}})

\* "not res.get(service)": res has no such key, or an empty dict under it
falsy_get(h, res, service) ==
    service \notin DOMAIN h[res] \/ h[h[res][service]] = EmptyDict

\* one turn of update's loop with "res[service] = configs" for
\* "res[service] = {}": res shares the dict of cfg
update_turn_shared(h, res, cfg, service) ==
    LET configs == h[cfg][service]
        h1 == IF falsy_get(h, res, service)
              THEN [h EXCEPT ![res] =
                       dict_update(@, [k \in {service} |-> configs])]
              ELSE h
    IN [h1 EXCEPT ![h1[res][service]] = dict_update(@, h1[configs])]

\* one turn of "for service, configs in six.iteritems(cfg)" of update
update_turn(h, res, cfg, service) ==
    LET configs == h[cfg][service]
        h1 == IF falsy_get(h, res, service)
              THEN [Append(h, EmptyDict) EXCEPT ![res] =
                       dict_update(@, [k \in {service} |-> Len(h) + 1])]
              ELSE h
    IN [h1 EXCEPT ![h1[res][service]] = dict_update(@, h1[configs])]

\* the closure update(cfg) of _merge_dicts on the heap
RECURSIVE update_heap(_, _, _, _)
update_heap(h, res, cfg, services) ==
    IF services = <<>> THEN h
    ELSE the({update_heap(h1, res, cfg, Tail(services)) :
                 h1 \in {update_turn(h, res, cfg, Head(services))}})

\* _merge_dicts(a, b) on the heap, a and b addresses: the heap after the
\* call and the address of res
_merge_dicts_heap(h, a, b) ==
    the({[h |-> h2, res |-> Len(h) + 1] :
            h2 \in {update_heap(h1, Len(h) + 1, b, iteritems(DOMAIN h1[b])) :
                       h1 \in {update_heap(h0, Len(h) + 1, a,
                                           iteritems(DOMAIN h0[a])) :
                                  h0 \in {Append(h, EmptyDict)}}}})

\* the cluster and the node group the calls are made with, but for their
\* user settings, which are on the heap
HeapWorkers == GcWorkers(<<"/mnt">>, EmptyDict)
HeapCluster == GcCluster(EmptyDict, HeapWorkers)

\* the "if node_group:" block on the heap, all_confs an address: the heap
\* after it and the address of the new all_confs
with_node_group_heap(h, roots, all_confs) ==
    the({the({_merge_dicts_heap(m.h, m.res, Len(d)) :
                 m \in {_merge_dicts_heap(d, all_confs, roots.node_configs)}}) :
            d \in {new_dict(h, ng_default_confs(HeapWorkers.storage_paths))}})

\* the "if cluster:" block on the heap
with_cluster_heap(h, roots, all_confs) ==
    the({the({_merge_dicts_heap(m2.h, m2.res, roots.cluster_configs) :
                 m2 \in {_merge_dicts_heap(m1.h, m1.res, Len(hive)) :
                            m1 \in {_merge_dicts_heap(hue, all_confs, Len(hue)) :
                                       hue \in {new_dict(hive, hue_confs(
                                                              HeapCluster))}}}}) :
            hive \in {new_dict(h, hive_confs(HeapCluster))}})

\* all_confs.get(service, {}), all_confs an address
get_heap(h, all_confs, service) ==
    IF service \in DOMAIN h[all_confs] THEN h[h[all_confs][service]]
    ELSE EmptyDict

\* _get_configs(service, cluster, node_group) on the heap; has_cluster and
\* has_node_group tell whether the argument is given.  The heap after the
\* call and the map returned.
_get_configs_heap(h, roots, service, has_cluster, has_node_group) ==
    the({[h |-> a2.h, value |-> get_heap(a2.h, a2.res, service)] :
            a2 \in {IF has_cluster THEN with_cluster_heap(a1.h, roots, a1.res)
                    ELSE a1 :
                       a1 \in {IF has_node_group
                               THEN with_node_group_heap(s0, roots, Len(s0))
                               ELSE [h |-> s0, res |-> Len(s0)] :
                                  s0 \in {new_dict(h, static_confs)}}}})

\* the dict at an address with the dicts of its services: its value
deref(h, a) == [s \in DOMAIN h[a] |-> h[h[a][s]]]

MaxGets == 2

\* the service argument of the calls
HeapServiceArgs == {"DATANODE", "HIVE", "HUE", "ZOOKEEPER"}

InitHeapWith(nc, cc) ==
    \E h1 \in {new_dict(<<>>, nc)} : \E h2 \in {new_dict(h1, cc)} :
       /\ heap = h2
       /\ hp_roots = [node_configs |-> Len(h1), cluster_configs |-> Len(h2)]
       /\ hp_calls = [returned |-> <<>>, repeated |-> FALSE]

\* node_group.node_configs: no setting, those of one process, all
HeapNgUserConfsSet ==
    {EmptyDict, Restrict(NgUserConfsFull, {"DATANODE"}), NgUserConfsFull}

\* cluster.cluster_configs: no setting, those of one service, all
HeapClusterConfsSet ==
    {EmptyDict, Restrict(ClusterConfsFull, {"HUE"}), ClusterConfsFull}

InitHeap ==
    \E nc \in HeapNgUserConfsSet, cc \in HeapClusterConfsSet :
        InitHeapWith(nc, cc)

InitHeapIdle == InitHeapWith(EmptyDict, EmptyDict)

\* one call _get_configs(service, cluster=..., node_group=...): the objects
\* the call made are garbage once it has returned its map
GetConfigsHeapCall ==
    \E service \in HeapServiceArgs, c \in BOOLEAN, ng \in BOOLEAN :
      \E r \in {_get_configs_heap(heap, hp_roots, service, c, ng)} :
        LET x == <<service, c, ng>>
        IN /\ \/ x \in DOMAIN hp_calls.returned
              \/ Cardinality(DOMAIN hp_calls.returned) < MaxGets
           /\ heap' = SubSeq(r.h, 1, Len(heap))
           /\ hp_calls' =
                  [returned |->
                       [y \in DOMAIN hp_calls.returned \cup {x} |->
                           IF y = x THEN r.value ELSE hp_calls.returned[y]],
                   repeated |-> x \in DOMAIN hp_calls.returned]
           /\ UNCHANGED <<hp_roots, mergeVars, gcVars, portVars, orchVars>>

vars == <<mergeVars, gcVars, portVars, heapVars, orchVars>>

InitMergeIdle == layers = <<EmptyDict>> /\ acc = EmptyDict /\ idx = 0

InitGetConfigsIdle ==
    /\ gc_node_group = GcWorkers(<<>>, EmptyDict)
    /\ gc_cluster = GcCluster(EmptyDict, GcWorkers(<<>>, EmptyDict))
    /\ gc_call = None
    /\ gc_result = None

NextMerge == MergeFirst \/ MergeNext

InitSpecMerge ==
    /\ InitMerge
    /\ InitGetConfigsIdle
    /\ InitPortsIdle
    /\ InitHeapIdle
    /\ InitOrchIdle

SpecMerge == InitSpecMerge /\ [][NextMerge]_vars

NextGetConfigs == GetConfigsCall

InitSpecGetConfigs ==
    /\ InitGetConfigs
    /\ InitMergeIdle
    /\ InitPortsIdle
    /\ InitHeapIdle
    /\ InitOrchIdle

SpecGetConfigs == InitSpecGetConfigs /\ [][NextGetConfigs]_vars

Init ==
    /\ InitOrch
    /\ InitMergeIdle
    /\ InitGetConfigsIdle
    /\ InitPortsIdle
    /\ InitHeapIdle

Spec == Init /\ [][Next]_vars

InitSpecPorts ==
    /\ InitPorts
    /\ InitMergeIdle
    /\ InitGetConfigsIdle
    /\ InitHeapIdle
    /\ InitOrchIdle

NextPorts == GetOpenPortsCall

SpecPorts == InitSpecPorts /\ [][NextPorts]_vars

InitSpecHeap ==
    /\ InitHeap
    /\ InitMergeIdle
    /\ InitGetConfigsIdle
    /\ InitPortsIdle
    /\ InitOrchIdle

NextHeap == GetConfigsHeapCall

SpecHeap == InitSpecHeap /\ [][NextHeap]_vars

(***************************************************************************)
(* Claims on the configuration merge engine                                *)
(***************************************************************************)
\* layer L defines key k of service s
Defines(L, s, k) == s \in DOMAIN L /\ k \in DOMAIN L[s]

\* the highest-index layer among the first n that defines (s, k)
HighestDefining(n, s, k) ==
    CHOOSE j \in 1..n :
        /\ Defines(layers[j], s, k)
        /\ \A m \in (j + 1)..n : ~Defines(layers[m], s, k)

\* C1: after folding the first idx layers with _merge_dicts, every (service,
\* key) that one of them defines is in the merged map, with the value the
\* highest-index of those layers gives it; merging {HIVE: {a: 1}} then
\* {HIVE: {a: 2, b: 3}} yields {HIVE: {a: 2, b: 3}}.
C1_MergeRightBiased ==
    /\ \A i \in 1..idx : \A s \in DOMAIN layers[i] : \A k \in DOMAIN layers[i][s] :
           /\ s \in DOMAIN acc
           /\ k \in DOMAIN acc[s]
           /\ acc[s][k] = layers[HighestDefining(idx, s, k)][s][k]
    /\ (idx = 2 /\ layers[1] = [HIVE |-> [a |-> 1]]
                /\ layers[2] = [HIVE |-> [a |-> 2, b |-> 3]])
           => acc = [HIVE |-> [a |-> 2, b |-> 3]]

\* C1's case: three layers folded, the first and the third disagree on a key
\* the second does not define, a key only the first defines is kept
C1_Witness ==
    /\ idx = 3
    /\ \E s \in DOMAIN acc : \E k \in DOMAIN acc[s] :
           /\ Defines(layers[1], s, k) /\ Defines(layers[3], s, k)
           /\ ~Defines(layers[2], s, k)
           /\ layers[1][s][k] # layers[3][s][k]
           /\ acc[s][k] = layers[3][s][k]
    /\ \E s \in DOMAIN acc : \E k \in DOMAIN acc[s] :
           /\ Defines(layers[1], s, k)
           /\ ~Defines(layers[2], s, k) /\ ~Defines(layers[3], s, k)
           /\ s \in DOMAIN layers[2] /\ s \in DOMAIN layers[3]

\* the roles the storage-path-derived defaults configure
NgDefaultRoles == {"NAMENODE", "SECONDARYNAMENODE", "DATANODE", "NODEMANAGER"}

\* C2 (as claimed): a call with a node group, for one of the four roles,
\* returns the user's node group value of every key that the user's settings
\* and the computed defaults both define (the cluster-wide settings, when a
\* cluster is given too, not defining it).
C2_NgUserOverridesWin ==
    (gc_call # None /\ gc_call.node_group # None
        /\ gc_call.service \in NgDefaultRoles) =>
        LET r == gc_call.service
            user == gc_call.node_group.node_configs
            defaults == ng_default_confs(gc_call.node_group.storage_paths)
        IN \A k \in DOMAIN dict_get_default(user, r, EmptyDict) :
               (/\ k \in DOMAIN defaults[r]
                /\ ~(gc_call.cluster # None
                        /\ Defines(gc_call.cluster.cluster_configs, r, k)))
               => (k \in DOMAIN gc_result /\ gc_result[k] = user[r][k])

\* the services some layer of the call defines
DefinedServices(call) ==
    DOMAIN static_confs
    \cup (IF call.node_group # None
          THEN DOMAIN call.node_group.node_configs \cup NgDefaultRoles
          ELSE {})
    \cup (IF call.cluster # None
          THEN {"HIVE", "HUE"} \cup DOMAIN call.cluster.cluster_configs
          ELSE {})

\* C3: a call with a cluster returns, for every key of the cluster-wide
\* settings of the service, the cluster-wide value; and a call for a service
\* that no layer defines returns the empty map.
C3_ClusterOverridesWin ==
    gc_call # None =>
        /\ gc_call.cluster # None =>
              \A k \in DOMAIN dict_get_default(gc_call.cluster.cluster_configs,
                                               gc_call.service, EmptyDict) :
                  /\ k \in DOMAIN gc_result
                  /\ gc_result[k] =
                         gc_call.cluster.cluster_configs[gc_call.service][k]
        /\ gc_call.service \notin DefinedServices(gc_call)
              => gc_result = EmptyDict

\* C3's case: a call with a cluster whose cluster-wide settings give the hive
\* database port, which the computed hive settings give as 7432
C3_Witness ==
    /\ gc_call # None
    /\ gc_call.cluster # None
    /\ gc_call.service = "HIVE"
    /\ Defines(gc_call.cluster.cluster_configs, "HIVE",
               "hive_metastore_database_port")
    /\ hive_confs(gc_call.cluster).HIVE.hive_metastore_database_port = "7432"
    /\ gc_result.hive_metastore_database_port = "5432"
    /\ gc_result.hive_metastore_database_type = "postgresql"

(***************************************************************************)
(* Claims on scale_cluster and decommission_cluster                        *)
(***************************************************************************)
\* C4: scale_cluster called with the empty instance list has returned at
\* once: no remote command, no unit of a fan-out and no control plane call
\* is made, nothing is raised, and the step of the call leaves the control
\* plane, the machines and the stage of the cluster as they were.
C4_ScaleEmptyNoOp ==
    /\ []((fn = "scale_cluster" /\ instances = <<>>) =>
             (pc = "idle" /\ log = <<>> /\ tg = None /\ err = "none"))
    /\ [][(pc = "idle" /\ fn' = "scale_cluster" /\ instances' = <<>>
              /\ calls' = calls + 1) =>
             (cm' = cm /\ nodes' = nodes /\ stage' = stage
                 /\ cluster' = cluster)]_vars

\* C4's case: a started cluster on which scale_cluster([]) has been called
C4_Witness ==
    /\ stage = "started"
    /\ calls = 1
    /\ fn = "scale_cluster"
    /\ instances = <<>>
    /\ pc = "idle"
    /\ cm.started # {}

\* the positions of the log that hold a call of the given name
At(name) == {j \in DOMAIN log : log[j].op = name}

\* the positions that hold the refresh of a role type on a service
RefreshAt(role, svc) ==
    {j \in At("refresh_nodes") : log[j].role = role /\ log[j].svc = svc}

\* the positions that hold the decommission request of a role type
DecommissionAt(role) == {j \in At("decommission_nodes") : log[j].role = role}

\* C5: a decommission_cluster call that has returned made exactly two
\* refresh_nodes calls, one for DATANODE on the HDFS service and one for
\* NODEMANAGER on the YARN service, whatever instances it was given; no
\* decommission_cluster call makes more.
C5_RefreshUnconditional ==
    fn = "decommission_cluster" =>
        /\ Cardinality(RefreshAt("DATANODE", HDFS_SERVICE_NAME)) <= 1
        /\ Cardinality(RefreshAt("NODEMANAGER", YARN_SERVICE_NAME)) <= 1
        /\ pc = "idle" =>
              /\ Cardinality(At("refresh_nodes")) = 2
              /\ \E j \in RefreshAt("DATANODE", HDFS_SERVICE_NAME) : log[j].ok
              /\ \E j \in RefreshAt("NODEMANAGER", YARN_SERVICE_NAME) :
                     log[j].ok

\* C5's case: instances that host neither role are decommissioned, and the
\* call has returned
C5_Witness ==
    /\ fn = "decommission_cluster"
    /\ pc = "idle"
    /\ instances # <<>>
    /\ At("decommission_nodes") = {}
    /\ Cardinality(At("refresh_nodes")) = 2

\* C6: in a decommission_cluster call, a decommission request for DATANODE
\* (NODEMANAGER) is made only for a non-empty list, which holds exactly the
\* role names of the instances whose node group runs it, in order; once
\* delete_instances is called, every such request whose list is non-empty has
\* been made and has returned; the refreshes come after delete_instances has
\* returned; and when a decommission request raises, delete_instances is not
\* called.
C6_DecommissionOrder ==
    fn = "decommission_cluster" =>
        /\ \A p \in {"DATANODE", "NODEMANAGER"} :
              /\ Cardinality(DecommissionAt(p)) <= 1
              /\ \A j \in DecommissionAt(p) :
                     /\ log[j].names # <<>>
                     /\ log[j].names = role_names(cluster, instances, p)
              /\ At("delete_instances") # {} =>
                     (role_names(cluster, instances, p) # <<>>
                          <=> DecommissionAt(p) # {})
        /\ \A j \in At("decommission_nodes") : \A d \in At("delete_instances") :
               j < d /\ log[j].ok
        /\ \A j \in At("refresh_nodes") : \E d \in At("delete_instances") :
               d < j /\ log[d].ok
        /\ Cardinality(At("delete_instances")) <= 1
        /\ \A d \in At("delete_instances") :
               log[d].names = [j \in DOMAIN instances |->
                                  instances[j].instance_name]
        /\ \A j \in At("decommission_nodes") :
               ~log[j].ok => (At("delete_instances") = {} /\ j = Len(log)
                                 /\ pc = "error")
        /\ pc = "idle" => At("delete_instances") # {}

\* C6's case: data nodes that are node managers too are decommissioned, and
\* the call has returned
C6_Witness ==
    /\ fn = "decommission_cluster"
    /\ pc = "idle"
    /\ DecommissionAt("DATANODE") # {}
    /\ DecommissionAt("NODEMANAGER") # {}
    /\ \E d \in At("delete_instances") :
           /\ \A j \in At("decommission_nodes") : j < d
           /\ \A j \in At("refresh_nodes") : d < j
    /\ cm.deleted # {}

(***************************************************************************)
(* Claims on the barriers and the pollers                                  *)
(***************************************************************************)
\* the log entry of a barrier that has succeeded
ManagerUp == CP("_start_cloudera_manager", "", "", <<>>)
AgentsUp == CP("_await_agents", "", "", <<>>)

\* what an orchestrator does before and while it waits on its barriers
BeforeBarriers ==
    {"is_pre_installed_cdh", "_configure_os", "_install_packages",
     "_start_cloudera_agents", "start_cloudera_db", "start_manager",
     "_start_cloudera_manager", "_await_agents", "get_all_hosts"}

\* the positions of the log that hold a call gated by the barriers
GatedAt == {j \in DOMAIN log : log[j].op \notin BeforeBarriers}

\* where the orchestrator stands while _await_agents runs
AgentsPcs == {"_await_agents", "agents_while", "agents_poll", "agents_branch",
              "agents_sleep"}

\* where the orchestrator stands while _start_cloudera_manager polls
ManagerPcs == {"manager_while", "manager_try", "manager_branch",
               "manager_sleep"}

\* C7: in configure_cluster nothing that follows the barriers is called, and
\* _await_agents is not entered, before the manager's port was reached; in
\* configure_cluster and scale_cluster nothing that follows _await_agents is
\* called before one snapshot of the manager's host list held the fqdn of
\* every target instance; a barrier at its deadline raises
\* HadoopProvisionError, after which the orchestrator makes no call at all.
C7_BarriersGate ==
    /\ [](fn = "configure_cluster" =>
            /\ \A j \in GatedAt : \E a, b \in DOMAIN log :
                   a < b /\ b < j /\ log[a] = ManagerUp /\ log[b] = AgentsUp
            /\ (pc \in AgentsPcs \/ At("_await_agents") # {}
                   \/ At("get_all_hosts") # {})
                   => \E a \in DOMAIN log : log[a] = ManagerUp)
    /\ [](fn = "scale_cluster" =>
            \A j \in GatedAt : \E b \in DOMAIN log : b < j /\ log[b] = AgentsUp)
    /\ []((pc = "agents_branch" /\ is_ok) =>
            \A j \in DOMAIN instances :
                fqdn(instances[j]) \in hostnames_to_manager)
    /\ [][(log' # log /\ log' # <<>> /\ log'[Len(log')] = AgentsUp)
             => (pc = "agents_branch" /\ is_ok)]_vars
    /\ [][(log' # log /\ log' # <<>> /\ log'[Len(log')] = ManagerUp)
             => (pc = "manager_branch" /\ is_ok)]_vars
    /\ [][(pc = "manager_while" /\ elapsed >= MANAGER_TIMEOUT)
             => err' = "HadoopProvisionError"]_vars
    /\ [][(pc = "agents_while" /\ elapsed >= AGENTS_TIMEOUT)
             => err' = "HadoopProvisionError"]_vars
    /\ [](err = "HadoopProvisionError" =>
            /\ pc = "error"
            /\ log[Len(log)] \in {Raised(ManagerUp), Raised(AgentsUp)}
            /\ GatedAt = {}
            /\ log[Len(log)] = Raised(ManagerUp) => At("_await_agents") = {})
    /\ [][pc # "error"]_vars

\* C7's case: configure_cluster has passed both barriers and deployed the
\* configuration
C7_Witness ==
    /\ fn = "configure_cluster"
    /\ At("deploy_configs") # {}
    /\ \E a, b \in DOMAIN log : a < b /\ log[a] = ManagerUp /\ log[b] = AgentsUp
    /\ cm.roles # {}

\* C8: a poller whose predicate has just evaluated true returns next, with
\* no sleep, no further evaluation and no error; is_ok is true exactly when
\* the snapshot held every hostname waited for.
C8_ReturnOnFirstTrue ==
    /\ [][(pc = "manager_branch" /\ is_ok) =>
             (pc' = "_await_agents" /\ err' = "none"
                 /\ log' = Append(log, ManagerUp))]_vars
    /\ [][(pc = "agents_branch" /\ is_ok) =>
             (pc' \in {"_configure_manager", "scale_loop"} /\ err' = "none"
                 /\ log' = Append(log, AgentsUp))]_vars
    /\ [](is_ok => pc \in {"manager_branch", "agents_branch"})
    /\ [](pc = "agents_branch" =>
             (is_ok <=> \A j \in DOMAIN instances :
                            fqdn(instances[j]) \in hostnames_to_manager))

\* C8's case: after polls that failed, the agents' predicate evaluates true
\* within the deadline
C8_Witness ==
    /\ pc = "agents_branch"
    /\ is_ok
    /\ elapsed >= AGENTS_INTERVAL
    /\ elapsed < AGENTS_TIMEOUT
    /\ Len(instances) > 1

\* C9 (as claimed): a poller that raises HadoopProvisionError does so at an
\* elapsed time of at most its timeout plus one interval, and a predicate is
\* never evaluated at an elapsed time at or past the timeout.
C9_DeadlineBound ==
    /\ (err = "HadoopProvisionError" /\ log[Len(log)] = Raised(ManagerUp))
           => elapsed <= MANAGER_TIMEOUT + MANAGER_INTERVAL
    /\ (err = "HadoopProvisionError" /\ log[Len(log)] = Raised(AgentsUp))
           => elapsed <= AGENTS_TIMEOUT + AGENTS_INTERVAL
    /\ pc = "manager_try" => elapsed < MANAGER_TIMEOUT
    /\ pc = "agents_poll" => elapsed < AGENTS_TIMEOUT

(***************************************************************************)
(* Claims on the services                                                  *)
(***************************************************************************)
\* C10 (as claimed): once start_cluster has returned, the services created,
\* the services configured and the services started are the same set, and
\* HDFS, YARN and OOZIE are in it.
C10_ServiceSetsAgree ==
    stage = "started" =>
        /\ cm.services = cm.configured
        /\ cm.configured = cm.started
        /\ {HDFS_SERVICE_NAME, YARN_SERVICE_NAME, OOZIE_SERVICE_NAME}
               \subseteq cm.started

(***************************************************************************)
(* Claims on the services created                                          *)
(***************************************************************************)
\* some instance of the cluster is in a node group that declares the process
Declares(process) ==
    \E g \in DOMAIN cluster.node_groups :
        /\ cluster.node_groups[g].instances # <<>>
        /\ In(process, cluster.node_groups[g].node_processes)

\* configure_cluster stands after _create_services, which has returned
CreateDone ==
    /\ fn = "configure_cluster"
    /\ pc \in {"_configure_services", "_configure_instances", "deploy_configs",
               "_configure_swift", "idle"}

\* the services the topology calls for
PlannedServices ==
    {HDFS_SERVICE_NAME, YARN_SERVICE_NAME, OOZIE_SERVICE_NAME}
    \cup (IF Declares("HIVEMETASTORE") THEN {HIVE_SERVICE_NAME} ELSE {})
    \cup (IF Declares("HUE_SERVER") THEN {HUE_SERVICE_NAME} ELSE {})
    \cup (IF Declares("SPARK_YARN_HISTORY_SERVER") THEN {SPARK_SERVICE_NAME}
          ELSE {})

\* C11: once _create_services has returned in configure_cluster, the HIVE
\* service is created iff some instance declares HIVEMETASTORE, HUE iff some
\* instance declares HUE_SERVER, SPARK_ON_YARN iff some instance declares
\* SPARK_YARN_HISTORY_SERVER, so that the created set is a function of the
\* topology; no service is created twice in a bootstrap, none before
\* create_cluster has returned; the topology of a manager, a {NAMENODE,
\* RESOURCEMANAGER} instance and two {DATANODE, NODEMANAGER} instances gets
\* exactly HDFS, YARN and OOZIE.
C11_PlannedServices ==
    fn = "configure_cluster" =>
        /\ CreateDone =>
              /\ HIVE_SERVICE_NAME \in cm.services <=> Declares("HIVEMETASTORE")
              /\ HUE_SERVICE_NAME \in cm.services <=> Declares("HUE_SERVER")
              /\ SPARK_SERVICE_NAME \in cm.services
                     <=> Declares("SPARK_YARN_HISTORY_SERVER")
              /\ cm.services = PlannedServices
              /\ cm.services = {log[j].svc : j \in At("create_service")}
        /\ \A i, j \in At("create_service") :
               log[i].svc = log[j].svc => i = j
        /\ \A j \in At("create_service") : \E a \in At("create_cluster") :
               a < j /\ log[a].ok
        /\ (CreateDone /\ Names(get_instances(cluster))
                              = {"mgr", "mst", "w1", "w2"})
               => cm.services = {HDFS_SERVICE_NAME, YARN_SERVICE_NAME,
                                 OOZIE_SERVICE_NAME}

\* C11's case: a bootstrap of a cluster with a metastore and no hue server
\* nor spark history server has created its services
C11_Witness ==
    /\ CreateDone
    /\ Declares("HIVEMETASTORE")
    /\ ~Declares("HUE_SERVER")
    /\ ~Declares("SPARK_YARN_HISTORY_SERVER")
    /\ cm.services = {HDFS_SERVICE_NAME, YARN_SERVICE_NAME, OOZIE_SERVICE_NAME,
                      HIVE_SERVICE_NAME}

(***************************************************************************)
(* Claims on the fan-outs                                                  *)
(***************************************************************************)
FanOuts == {"_configure_os", "_install_packages", "_start_cloudera_agents",
            "_configure_swift"}

\* the names of the instances the orchestrator call works on, in order
InstanceNamesOf(insts) == [j \in DOMAIN insts |-> insts[j].instance_name]

\* C12: while a fan-out runs there is exactly one unit per instance of the
\* list; the fan-out is left only when every unit has finished, returning
\* when all are done and raising when one failed; a unit is never dropped or
\* stopped because another failed, and can go on while the group is open; a
\* fan-out that returned has left its effect on every instance; after a
\* fan-out raised the orchestrator does nothing more.
C12_FanOutJoin ==
    /\ [](tg # None =>
            /\ pc \in FanOuts
            /\ DOMAIN tg = Names(instances)
            /\ Cardinality(DOMAIN tg) = Len(instances)
            /\ (\E n \in DOMAIN tg : tg[n] = "spawned") => ENABLED unit_start
            /\ (\E n \in DOMAIN tg : tg[n] = "running") => ENABLED unit_finish)
    /\ [][(tg # None /\ tg' # None) =>
             (/\ pc' = pc /\ log' = log /\ err' = err
              /\ DOMAIN tg' = DOMAIN tg
              /\ \A n \in DOMAIN tg :
                     \/ tg'[n] = tg[n]
                     \/ tg[n] = "spawned" /\ tg'[n] = "running"
                     \/ tg[n] = "running" /\ tg'[n] \in {"done", "failed"})]_vars
    /\ [][(tg # None /\ tg' = None) =>
             (/\ \A n \in DOMAIN tg : tg[n] \in {"done", "failed"}
              /\ log' = Append(log, log'[Len(log')])
              /\ log'[Len(log')].op = pc
              /\ log'[Len(log')].names = InstanceNamesOf(instances)
              /\ IF \E n \in DOMAIN tg : tg[n] = "failed"
                 THEN /\ ~log'[Len(log')].ok
                      /\ pc' = "error"
                      /\ err' = "ThreadException"
                 ELSE /\ log'[Len(log')].ok
                      /\ pc' # "error"
                      /\ err' = "none")]_vars
    /\ [][(log' # log /\ log' # <<>> /\ log'[Len(log')].op \in FanOuts)
             => (tg # None /\ tg' = None)]_vars
    /\ [](fn \in {"configure_cluster", "scale_cluster"} =>
            \A j \in DOMAIN log :
                (log[j].op \in FanOuts /\ log[j].ok) =>
                    \A n \in Range(log[j].names) :
                        unit_effect(log[j].op) \in nodes[n])
    /\ [](err = "ThreadException" =>
            /\ pc = "error"
            /\ tg = None
            /\ log[Len(log)].op \in FanOuts
            /\ ~log[Len(log)].ok)
    /\ [][err # "ThreadException"]_vars

\* C12's case: a package installation over several instances has raised
\* after one unit failed and the others installed their packages
C12_Witness ==
    /\ err = "ThreadException"
    /\ log[Len(log)].op = "_install_packages"
    /\ Len(instances) >= 3
    /\ Cardinality({n \in Names(instances) : "packages" \notin nodes[n]}) = 1
    /\ Cardinality({n \in Names(instances) : "packages" \in nodes[n]}) >= 2

\* every instance of the orchestrator call has the effect of a fan-out's unit
AllHave(effect) == \A n \in Names(instances) : effect \in nodes[n]

\* no machine has it
NoneHas(effect) == \A n \in DOMAIN nodes : effect \notin nodes[n]

\* a unit of the fan-out the orchestrator stands in has started
UnitStarted(phase) ==
    pc = phase /\ tg # None /\ \E n \in DOMAIN tg : tg[n] # "spawned"

\* C13: in configure_cluster, a package installation unit has started, or
\* has left its packages, only when every repository unit has finished (and
\* so left its repository on every instance); an agent unit has started, in
\* a cluster not pre-installed, only when every instance has its packages;
\* the database and the server of the manager are started only when the
\* agent runs on every instance; in a pre-installed cluster no repository
\* and no package unit ever runs, and the agents are still started on every
\* instance.
C13_PhaseBarriers ==
    fn = "configure_cluster" =>
        /\ (UnitStarted("_install_packages") \/ ~NoneHas("packages"))
               => (AllHave("repo") /\ \E j \in At("_configure_os") : log[j].ok)
        /\ ((UnitStarted("_start_cloudera_agents") \/ ~NoneHas("agent"))
                /\ ~pre_installed)
               => (AllHave("packages")
                      /\ \E j \in At("_install_packages") : log[j].ok)
        /\ (At("start_cloudera_db") # {} \/ At("start_manager") # {}
                \/ ~NoneHas("cm_db") \/ ~NoneHas("cm_server"))
               => (AllHave("agent")
                      /\ \E j \in At("_start_cloudera_agents") : log[j].ok)
        /\ pc \in {"_start_cloudera_manager"} \cup ManagerPcs
               => (AllHave("agent") /\ tg = None)
        /\ \A i \in At("_configure_os") : \A j \in At("_install_packages") :
               i < j
        /\ \A i \in At("_install_packages") :
               \A j \in At("_start_cloudera_agents") : i < j
        /\ \A i \in At("_start_cloudera_agents") :
               \A j \in At("start_cloudera_db") : i < j
        /\ pre_installed =>
               /\ pc \notin {"_configure_os", "_install_packages"}
               /\ NoneHas("repo") /\ NoneHas("packages")
               /\ At("_configure_os") = {} /\ At("_install_packages") = {}
               /\ (pc \notin {"_start_cloudera_agents", "error"}
                      => AllHave("agent"))
        /\ instances = get_instances(cluster)

\* C13's case: a cluster that was not pre-installed has gone through the
\* three fan-outs and the manager's database is started
C13_Witness ==
    /\ fn = "configure_cluster"
    /\ ~pre_installed
    /\ At("start_cloudera_db") # {}
    /\ AllHave("repo") /\ AllHave("packages") /\ AllHave("agent")
    /\ Len(instances) >= 3

(***************************************************************************)
(* Claims on get_open_ports                                                *)
(***************************************************************************)
\* the (position in node_processes, position in the role's port list) pairs
\* of the ports the table gives for the node group's processes
PortSlots(procs) ==
    UNION {{<<j, k>> : k \in DOMAIN ports_map[procs[j]]} :
              j \in {i \in DOMAIN procs : procs[i] \in DOMAIN ports_map}}

\* how many times x is in a sequence
Count(seq, x) == Cardinality({j \in DOMAIN seq : seq[j] = x})

\* C14: get_open_ports returns 9000 first and then, for each process of
\* node_processes in order that the table knows, the whole port list of the
\* process in the table's order; so its length is 1 + the sum of the lists'
\* lengths, every integer is in it as many times as it is in {9000} and in
\* the lists together, a process the table does not know adds nothing, and
\* nothing of the node group but node_processes matters.
C14_OpenPorts ==
    gp_ports # <<>> =>
        LET procs == gp_node_group.node_processes
            slots == PortSlots(procs)
            before(s) == {t \in slots : t[1] < s[1] \/ (t[1] = s[1] /\ t[2] < s[2])}
        IN /\ gp_ports[1] = 9000
           /\ Len(gp_ports) = 1 + Cardinality(slots)
           /\ \A s \in slots :
                  gp_ports[2 + Cardinality(before(s))]
                      = ports_map[procs[s[1]]][s[2]]
           /\ \A x \in Range(gp_ports) \cup {9000} :
                  Count(gp_ports, x) =
                      (IF x = 9000 THEN 1 ELSE 0)
                      + Cardinality({s \in slots :
                                        ports_map[procs[s[1]]][s[2]] = x})
           /\ (procs = <<"DATANODE", "NODEMANAGER">>) =>
                  gp_ports = <<9000, 50010, 1004, 50075, 1006, 50020,
                               8040, 8041, 8042>>
           /\ (\A j \in DOMAIN procs : procs[j] \notin DOMAIN ports_map)
                  => gp_ports = <<9000>>

\* C14's case: the ports of a node group of a process the table knows and
\* one it does not, with storage paths and settings of its own
C14_Witness ==
    /\ gp_ports # <<>>
    /\ gp_node_group.node_processes = <<"ZOOKEEPER", "NODEMANAGER">>
    /\ gp_node_group.storage_paths # <<>>
    /\ gp_node_group.node_configs # EmptyDict
    /\ gp_ports = <<9000, 8040, 8041, 8042>>

(***************************************************************************)
(* Claims on the manager's reachability barrier                            *)
(***************************************************************************)
\* C15: in _start_cloudera_manager a connection attempt that fails raises
\* nothing and ends nothing: the barrier sleeps 2 seconds and, the deadline
\* not reached, tries again; an attempt is made only before the deadline of
\* 300 seconds, and one that succeeds makes the function return without
\* raising; only the deadline makes the barrier raise; the database and the
\* server of the manager are started, in this order, before the first
\* attempt.
C15_ReachabilityRetry ==
    /\ [][(pc = "manager_branch" /\ ~is_ok) =>
             (pc' = "manager_sleep" /\ err' = "none" /\ log' = log
                 /\ elapsed' = elapsed)]_vars
    /\ [][pc = "manager_sleep" =>
             (pc' = "manager_while" /\ elapsed' = elapsed + 2
                 /\ err' = "none" /\ log' = log)]_vars
    /\ [][(pc = "manager_while" /\ elapsed < 300) =>
             (pc' = "manager_try" /\ err' = "none" /\ log' = log)]_vars
    /\ [](pc = "manager_try" => elapsed < 300)
    /\ [][(pc = "manager_branch" /\ is_ok) =>
             (pc' = "_await_agents" /\ err' = "none"
                 /\ log'[Len(log')].ok)]_vars
    /\ [][(pc \in ManagerPcs /\ pc' = "error") =>
             (pc = "manager_while" /\ elapsed >= 300
                 /\ err' = "HadoopProvisionError")]_vars
    /\ [](pc \in ManagerPcs =>
            /\ \E a, b \in DOMAIN log :
                   /\ a < b
                   /\ log[a] = R("start_cloudera_db", get_manager(cluster))
                   /\ log[b] = R("start_manager", get_manager(cluster))
            /\ {"cm_db", "cm_server"}
                   \subseteq nodes[get_manager(cluster).instance_name])

\* C15's case: after attempts that failed and the sleeps that followed, an
\* attempt made before the deadline succeeds
C15_Witness ==
    /\ pc = "manager_branch"
    /\ is_ok
    /\ elapsed >= 2 * MANAGER_INTERVAL
    /\ elapsed < MANAGER_TIMEOUT

(***************************************************************************)
(* Claims on role assignment, scaling and start order                      *)
(***************************************************************************)
\* the (instance, process) pairs that get a role: every process of the
\* instance's node group but MANAGER
RolePairs(insts) ==
    {<<i, p>> \in Range(insts) \X
                  UNION {Range(cluster.node_groups[g].node_processes) :
                            g \in DOMAIN cluster.node_groups} :
        /\ In(p, node_group_of(cluster, i).node_processes)
        /\ p # "MANAGER"}

\* the positions of the log that create the role of process p on instance i
CreateRoleAt(i, p) ==
    {j \in At("create_role") :
        /\ log[j].role = p
        /\ log[j].names = <<get_role_name(i, p), fqdn(i)>>
        /\ log[j].svc = service_of(p)}

\* role assignment has been gone through for the instances of the call
RolesAssigned ==
    \/ fn = "configure_cluster"
          /\ pc \in {"deploy_configs", "_configure_swift", "idle"}
    \/ fn = "scale_cluster" /\ pc = "idle" /\ instances # <<>>

\* C16: in configure_cluster and scale_cluster a role is created only for an
\* instance of the call and a process of its node group other than MANAGER,
\* on the service that owns the process, at most once, and the next call is
\* update_config on that role with _get_configs(process, node_group); when
\* role assignment is through, every such pair has its role; in
\* configure_cluster every role is created after every service is configured
\* and before deploy_configs.
C16_RoleAssignment ==
    fn \in {"configure_cluster", "scale_cluster"} =>
        /\ \A j \in At("create_role") :
               /\ log[j].role # "MANAGER"
               /\ \E s \in RolePairs(instances) : j \in CreateRoleAt(s[1], s[2])
               /\ log[j].ok =>
                      /\ j + 1 \in DOMAIN log
                      /\ log[j + 1].op = "role.update_config"
                      /\ log[j + 1].role = log[j].role
                      /\ log[j + 1].svc = log[j].svc
                      /\ log[j + 1].names = <<log[j].names[1]>>
                      /\ \E i \in Range(instances) :
                             /\ fqdn(i) = log[j].names[2]
                             /\ log[j + 1].conf =
                                    _get_configs(log[j].role, None,
                                                 node_group_of(cluster, i))
        /\ \A j \in At("role.update_config") :
               j - 1 \in At("create_role") /\ log[j - 1].ok
        /\ \A s \in RolePairs(instances) :
               /\ Cardinality(CreateRoleAt(s[1], s[2])) <= 1
               /\ RolesAssigned =>
                      /\ Cardinality(CreateRoleAt(s[1], s[2])) = 1
                      /\ get_role_name(s[1], s[2]) \in cm.roles
        /\ RolesAssigned =>
               Cardinality(At("create_role"))
                   = Cardinality(RolePairs(instances))
        /\ fn = "configure_cluster" =>
               \A j \in At("create_role") :
                   /\ {log[u].svc : u \in {u \in At("update_config") :
                                               u < j /\ log[u].ok}}
                          = PlannedServices
                   /\ \A u \in At("update_config") : u < j
                   /\ \A d \in At("deploy_configs") : j + 1 < d

\* C16's case: configure_cluster has assigned the roles of a cluster of four
\* instances or more and pushed the configuration
C16_Witness ==
    /\ fn = "configure_cluster"
    /\ At("deploy_configs") # {}
    /\ Len(instances) >= 4
    /\ Cardinality(At("create_role")) >= 5
    /\ \E j \in At("create_role") : log[j + 1].conf # EmptyDict

\* the position of the log where the configuration is pushed to instance i
UpdateConfigsAt(i) ==
    {j \in At("update_configs") : log[j].names = <<i.instance_name>>}

\* instance i is in a node group that declares process p
Runs(i, p) == In(p, node_group_of(cluster, i).node_processes)

\* the (new instance, process) pairs whose role scale_cluster starts
StartPairs ==
    {s \in Range(instances) \X {"DATANODE", "NODEMANAGER"} : Runs(s[1], s[2])}

\* the positions of the log that start the role of process p on instance i
StartRolesAt(i, p) ==
    {j \in At("start_roles") :
        /\ log[j].role = p
        /\ log[j].svc = service_of(p)
        /\ log[j].names = <<get_role_name(i, p)>>}

\* C17: in scale_cluster, the configuration is pushed to a new instance
\* after all its roles are created; the call after the push is the refresh
\* of the HDFS node list iff the instance's node group declares DATANODE,
\* and there is no other refresh; each start_roles is for the DATANODE or
\* NODEMANAGER role of a new instance whose node group declares it, and comes
\* after the push to that instance and the refresh that follows it; a call
\* that has returned has started each such role once, so that an instance
\* declaring neither process has no refresh and no start_roles.
C17_ScaleOrder ==
    fn = "scale_cluster" =>
        /\ \A i \in Range(instances) :
               /\ Cardinality(UpdateConfigsAt(i)) <= 1
               /\ \A j \in UpdateConfigsAt(i) :
                      /\ \A s \in RolePairs(<<i>>) :
                             \E c \in CreateRoleAt(s[1], s[2]) :
                                 c < j /\ log[c].ok
                      /\ (log[j].ok /\ j + 1 \in DOMAIN log) =>
                             (log[j + 1].op = "refresh_nodes"
                                  <=> Runs(i, "DATANODE"))
               /\ pc = "idle" => UpdateConfigsAt(i) # {}
        /\ \A j \in At("update_configs") :
               \E i \in Range(instances) : j \in UpdateConfigsAt(i)
        /\ \A r \in At("refresh_nodes") :
               /\ log[r].svc = HDFS_SERVICE_NAME
               /\ log[r].role = "DATANODE"
               /\ r - 1 \in At("update_configs")
        /\ \A j \in At("start_roles") :
               \E s \in StartPairs :
                   /\ j \in StartRolesAt(s[1], s[2])
                   /\ \E u \in UpdateConfigsAt(s[1]) :
                          /\ u < j
                          /\ log[u].ok
                          /\ Runs(s[1], "DATANODE") =>
                                 (u + 1 < j /\ log[u + 1].ok)
        /\ \A s \in StartPairs :
               /\ Cardinality(StartRolesAt(s[1], s[2])) <= 1
               /\ pc = "idle" => Cardinality(StartRolesAt(s[1], s[2])) = 1
        /\ pc = "idle" =>
               /\ Cardinality(At("start_roles")) = Cardinality(StartPairs)
               /\ Cardinality(At("refresh_nodes"))
                      = Cardinality({i \in Range(instances) :
                                        Runs(i, "DATANODE")})

\* C17's case: scale_cluster has returned for two new instances, one that
\* is a data node and one that is not
C17_Witness ==
    /\ fn = "scale_cluster"
    /\ pc = "idle"
    /\ Len(instances) = 2
    /\ Cardinality(At("refresh_nodes")) = 1
    /\ Cardinality(At("start_roles")) = 3

\* the positions of the log that start a service
StartAt(svc) == {j \in At("start_service") : log[j].svc = svc}

\* the positions of the Oozie branch of start_cluster: the extjs install,
\* the Oozie database, the sharelib and the start of the service
OozieSteps ==
    At("ls /var/lib/oozie/ext-2.2") \cup At("curl extjs.zip")
        \cup At("unzip extjs.zip") \cup At("create_oozie_db")
        \cup At("install_oozie_sharelib") \cup StartAt(OOZIE_SERVICE_NAME)
        \cup {j \in At("get_service") : log[j].svc = OOZIE_SERVICE_NAME}

\* the positions that prepare or start the Hive, Hue and Spark services:
\* all that is neither of the HDFS and YARN steps nor of the Oozie branch
LaterSteps ==
    {j \in DOMAIN log :
        /\ j \notin OozieSteps
        /\ log[j].op # "get_cloudera_cluster"
        /\ log[j].svc \notin {HDFS_SERVICE_NAME, YARN_SERVICE_NAME}}

\* every position of B comes after a position of A whose call has returned
Precedes(A, B) == \A b \in B : \E a \in A : a < b /\ log[a].ok

\* C18: in start_cluster, format_namenode returns before HDFS is started,
\* HDFS is started before the YARN job-history directory is created, which
\* is before YARN is started; YARN is started before every step of the
\* Oozie branch; the Hive, Hue and Spark steps come after the starts of HDFS
\* and YARN and, on a cluster with an Oozie server, after the start of
\* Oozie; a call that raised is the last one of the log.
C18_StartOrder ==
    fn = "start_cluster" =>
        /\ Precedes(At("format_namenode"), StartAt(HDFS_SERVICE_NAME))
        /\ Precedes(StartAt(HDFS_SERVICE_NAME),
                    At("create_yarn_job_history_dir"))
        /\ Precedes(At("create_yarn_job_history_dir"),
                    StartAt(YARN_SERVICE_NAME))
        /\ Precedes(StartAt(YARN_SERVICE_NAME), OozieSteps)
        /\ Precedes(StartAt(HDFS_SERVICE_NAME), LaterSteps)
        /\ Precedes(StartAt(YARN_SERVICE_NAME), LaterSteps)
        /\ get_oozie(cluster) # None =>
               Precedes(StartAt(OOZIE_SERVICE_NAME), LaterSteps)
        /\ get_oozie(cluster) = None => OozieSteps = {}
        /\ \A j \in LaterSteps : \A o \in OozieSteps : o < j
        /\ \A j \in DOMAIN log :
               ~log[j].ok => (j = Len(log) /\ pc = "error")
        /\ pc = "error" => (log # <<>> /\ ~log[Len(log)].ok)
        /\ pc = "idle" =>
               /\ StartAt(HDFS_SERVICE_NAME) # {}
               /\ StartAt(YARN_SERVICE_NAME) # {}
               /\ get_oozie(cluster) # None => StartAt(OOZIE_SERVICE_NAME) # {}

\* C18's case: on a cluster with an Oozie server, start_cluster raised in a
\* step of the Hive, Hue or Spark services, after Oozie was started
C18_Witness ==
    /\ fn = "start_cluster"
    /\ pc = "error"
    /\ StartAt(OOZIE_SERVICE_NAME) # {}
    /\ Len(log) \in LaterSteps

(***************************************************************************)
(* Claims on object-storage bridging and on the purity of _get_configs     *)
(***************************************************************************)
\* the positions of the log that belong to _configure_swift_to_inst
SwiftSteps ==
    At("curl hadoop-openstack.jar") \cup At("read_file_from core-site.xml")
        \cup At("write_file_to core-site.xml")

\* C19: when swift is not enabled for the cluster, no call of
\* configure_cluster or scale_cluster runs a step of _configure_swift_to_inst
\* and no machine's core-site.xml has been rewritten.
C19_SwiftGated ==
    ~swift_enabled =>
        /\ fn \in {"configure_cluster", "scale_cluster"} => SwiftSteps = {}
        /\ pc # "_configure_swift"
        /\ NoneHas("swift")

\* the calls made so far with both a cluster and a node group
FullCalls == {x \in DOMAIN hp_calls.returned : x[2] /\ x[3]}

\* C20: a _get_configs call leaves node_group.node_configs,
\* cluster.cluster_configs and the map of every service in them as they
\* were, objects and values, and returns what every earlier call with the
\* same arguments returned.
C20_GetConfigsPure ==
    [][/\ heap'[hp_roots.node_configs] = heap[hp_roots.node_configs]
       /\ heap'[hp_roots.cluster_configs] = heap[hp_roots.cluster_configs]
       /\ deref(heap', hp_roots.node_configs)
              = deref(heap, hp_roots.node_configs)
       /\ deref(heap', hp_roots.cluster_configs)
              = deref(heap, hp_roots.cluster_configs)
       /\ \A x \in DOMAIN hp_calls.returned :
              hp_calls'.returned[x] = hp_calls.returned[x]]_vars

\* C20's case: node_configs and cluster_configs hold settings, a call with
\* both the cluster and the node group has returned a map with settings, and
\* the last call repeated the arguments of an earlier one
C20_Witness ==
    /\ heap[hp_roots.node_configs] # EmptyDict
    /\ heap[hp_roots.cluster_configs] # EmptyDict
    /\ \E x \in FullCalls : hp_calls.returned[x] # EmptyDict
    /\ hp_calls.repeated
    /\ Cardinality(DOMAIN hp_calls.returned) >= 2

====
